---- MODULE Spec2Model ----
(***************************************************************************)
(* flappy-push-up.                                                         *)
(* The ranking service (src/worker/index.js): the request handlers over    *)
(* the two D1 tables leaderboard and score_histogram.  Every awaited SQL   *)
(* statement of a handler is one atomic step, so that concurrently         *)
(* running handlers interleave statement by statement.                     *)
(* The browser client: the game engine (src/js/game.js), each of whose     *)
(* operations is one atomic step, and the app loop (src/js/main.js), each  *)
(* of whose frames is one.                                                 *)
(***************************************************************************)
EXTENDS Integers, Sequences, FiniteSets, Bags, TLC

\* ---------------------------------------------------------------- bounds
NumHandlers == 2
MaxRequests == 2
MaxClock == 1
MaxCalls == 1
MaxTicks == 3
MaxPipes == 3

\* ------------------------------------------------------ program constants
MAX_LEADERBOARD == 100
MAX_TRACKED_SCORE == 200
NAME_LIMIT == 20

\* the ranking service: its two tables, row id counter and clock, the
\* handlers serving requests, and the scores accepted so far
VARIABLES histogram, leaderboard, nextId, clock, h, submitted, requests

\* the browser client: the game engine, the personal-best storage, the app
\* loop's movement detector, and the operation performed last
VARIABLES game, storage, app, last

\* what the movement detector has emitted so far (kept for the claims), the
\* leaderboard client, and the browser's clock and requests in flight
VARIABLES heard, api, net

serverVars == <<histogram, leaderboard, nextId, clock, h, submitted, requests>>

clientVars == <<game, storage, app, last, heard, api, net>>

vars == <<histogram, leaderboard, nextId, clock, h, submitted, requests,
          game, storage, app, last, heard, api, net>>

Handlers == 1..NumHandlers

\* optional values (null / undefined results of .first())
None == <<>>
Some(x) == <<x>>

Min2(a, b) == IF a < b THEN a ELSE b

Max2(a, b) == IF a > b THEN a ELSE b

\* ------------------------------------------------------------ JS values
Undefined == [t |-> "undefined"]
Str(s) == [t |-> "string", s |-> s]
\* a JS number with the value num/den
Num(n, d) == [t |-> "number", num |-> n, den |-> d]

\* the characters that String.prototype.trim strips and parseInt skips: the
\* WhiteSpace and LineTerminator code points of ECMAScript; a character
\* that TLA+ has no escape for stands as its code point
Whitespace ==
    {" ", "\t", "\n", "\r", "\f", "U+000B", "U+00A0", "U+FEFF", "U+1680",
     "U+2000", "U+2001", "U+2002", "U+2003", "U+2004", "U+2005", "U+2006",
     "U+2007", "U+2008", "U+2009", "U+200A", "U+2028", "U+2029", "U+202F",
     "U+205F", "U+3000"}

Rep(c, n) == [i \in 1..n |-> c]

\* !v
Falsy(v) ==
    \/ v.t = "undefined"
    \/ v.t = "string" /\ Len(v.s) = 0
    \/ v.t = "number" /\ v.num = 0

\* String.prototype.trim
RECURSIVE TrimLeft(_)
TrimLeft(s) ==
    IF Len(s) > 0 /\ Head(s) \in Whitespace THEN TrimLeft(Tail(s)) ELSE s

RECURSIVE TrimRight(_)
TrimRight(s) ==
    IF Len(s) > 0 /\ s[Len(s)] \in Whitespace
    THEN TrimRight(SubSeq(s, 1, Len(s) - 1)) ELSE s

Trim(s) == TrimRight(TrimLeft(s))

\* String.prototype.slice(0, n)
Slice0(s, n) == SubSeq(s, 1, Min2(n, Len(s)))

\* the length test made on the untrimmed name
NameRejected_NoTrim(name) ==
    \/ Falsy(name)
    \/ name.t # "string"
    \/ Len(name.s) = 0

\* line 80: the name is rejected
NameRejected(name) ==
    \/ Falsy(name)
    \/ name.t # "string"
    \/ Len(Trim(name.s)) = 0

\* line 83: the score is rejected
ScoreRejected(score) ==
    \/ score.t # "number"
    \/ score.num < 0
    \/ score.num % score.den # 0

\* line 87
CleanName(name) == Slice0(Trim(name.s), NAME_LIMIT)

\* the histogram keyed by the unclamped score
ClampedScore_Raw(score) == score

\* line 88
ClampedScore(score) == Min2(score, MAX_TRACKED_SCORE)

\* ------------------------------------------------------ score_histogram
\* SUM(count) over the rows selected by keys
SumCounts(hist, keys) == BagCardinality([k \in keys |-> hist[k]])

HistTotal(hist) == SumCounts(hist, DOMAIN hist)

\* ON CONFLICT overwriting the row instead of adding to it
HistogramUpsert_Replace(hist, k) ==
    IF k \in DOMAIN hist
    THEN [hist EXCEPT ![k] = 1]
    ELSE hist @@ (k :> 1)

\* lines 91-95: INSERT ... VALUES (?, 1) ON CONFLICT(score) DO UPDATE SET count = count + 1
HistogramUpsert(hist, k) ==
    IF k \in DOMAIN hist
    THEN [hist EXCEPT ![k] = @ + 1]
    ELSE hist @@ (k :> 1)

\* The double (below / total) * 100 lies just under an exact half for these
\* four ratios (14.5, 28.5, 56.5 and 57.5 come out as 14.499999999999998,
\* 28.499999999999996, 56.49999999999999, 57.49999999999999); for every other
\* ratio Math.round of the double is the round-half-up of the exact quotient.
DoubleFallsShort(below, total) ==
    \E n \in {29, 57, 113, 115} : 200 * below = n * total

\* line 177: Math.round((stats.below / stats.total) * 100)
RoundedRatio(below, total) ==
    IF DoubleFallsShort(below, total)
    THEN (200 * below + total) \div (2 * total) - 1
    ELSE (200 * below + total) \div (2 * total)

\* lines 164-179; score is the bound parameter of the query
CalculatePercentile(hist, score) ==
    LET total == HistTotal(hist)
        below == SumCounts(hist, {k \in DOMAIN hist : k < score})
    IN  IF DOMAIN hist = {} \/ total = 0 THEN 50
        ELSE RoundedRatio(below, total)

\* ---------------------------------------------------------- leaderboard
\* The table is held in the order of its index idx_leaderboard_score
\* (score DESC, created_at ASC, rowid).
Before(a, b) ==
    \/ a.score > b.score
    \/ a.score = b.score /\ a.created_at < b.created_at
    \/ a.score = b.score /\ a.created_at = b.created_at /\ a.id < b.id

SameKey(a, b) == a.score = b.score /\ a.created_at = b.created_at

\* lines 116-119: INSERT INTO leaderboard
InsertRow_Unique(lb, row) ==
    IF \E i \in 1..Len(lb) : lb[i].name = row.name /\ lb[i].score = row.score
    THEN lb
    ELSE LET pos == Cardinality({i \in 1..Len(lb) : Before(lb[i], row)})
         IN  SubSeq(lb, 1, pos) \o <<row>> \o SubSeq(lb, pos + 1, Len(lb))

InsertRow(lb, row) ==
    LET pos == Cardinality({i \in 1..Len(lb) : Before(lb[i], row)})
    IN  SubSeq(lb, 1, pos) \o <<row>> \o SubSeq(lb, pos + 1, Len(lb))

RemoveAt(lb, i) == SubSeq(lb, 1, i - 1) \o SubSeq(lb, i + 1, Len(lb))

\* the oldest of the rows of the lowest score: ORDER BY score ASC,
\* created_at ASC
LowestLatest_Oldest(lb) ==
    CHOOSE i \in 1..Len(lb) :
        /\ lb[i].score = lb[Len(lb)].score
        /\ \A j \in 1..(i - 1) : lb[j].score # lb[Len(lb)].score

\* lines 125-127: the row ORDER BY score ASC, created_at DESC LIMIT 1 names.
\* The statement reads idx_leaderboard_score (pose.js line 203) from its
\* end, so of rows equal in both columns it names the one of the highest
\* rowid, the row inserted last
LowestLatest(lb) == Len(lb)

\* the table after DELETE ... WHERE id = (that row); an empty table stays empty
Deleted(lb) == IF Len(lb) = 0 THEN lb ELSE RemoveAt(lb, LowestLatest(lb))

\* lines 101-105: SELECT score ... ORDER BY score ASC LIMIT 1
LowestEntry(lb) == IF Len(lb) = 0 THEN None ELSE Some(lb[Len(lb)].score)

\* eviction only once the count read is already above the limit
OverLimit_Strict(currentCount) == currentCount > MAX_LEADERBOARD

\* line 122
OverLimit(currentCount) == currentCount >= MAX_LEADERBOARD

\* admission of a score that only equals the lowest
Admits_NonStrict(currentCount, lowestEntry, score) ==
    \/ currentCount < MAX_LEADERBOARD
    \/ lowestEntry # None /\ score >= lowestEntry[1]

\* line 114
Admits(currentCount, lowestEntry, score) ==
    \/ currentCount < MAX_LEADERBOARD
    \/ lowestEntry # None /\ score > lowestEntry[1]

\* the rank counting the rows of equal score as well
RankOf_Inclusive(lb, score) ==
    LET r == Cardinality({i \in 1..Len(lb) : lb[i].score >= score}) + 1
    IN  IF r = 0 THEN None ELSE Some(r)

\* lines 146-149: SELECT COUNT(*) + 1 ... WHERE score > ?, then || null
RankOf(lb, score) ==
    LET r == Cardinality({i \in 1..Len(lb) : lb[i].score > score}) + 1
    IN  IF r = 0 THEN None ELSE Some(r)

Project(row) == [name |-> row.name, score |-> row.score, created_at |-> row.created_at]

\* Renderer.drawGameOverScreen: the row drawn at index i of the leaderboard is
\* highlighted as the current player's when the answered rank is i + 1
isCurrentPlayer(rank, i) == rank = i + 1

\* lines 136-141: ORDER BY score DESC, created_at ASC LIMIT ?; rows equal in
\* both columns come in no defined order
BoardResults(lb) ==
    LET n == Len(lb)
        T == {i \in 1..n : \E j \in {i - 1, i + 1} \cap (1..n) : SameKey(lb[i], lb[j])}
        perms == {f \in [T -> T] :
                    /\ \A i, j \in T : f[i] = f[j] => i = j
                    /\ \A i \in T : SameKey(lb[f[i]], lb[i])}
    IN  { Slice0([i \in 1..n |-> Project(IF i \in T THEN lb[f[i]] ELSE lb[i])],
                 MAX_LEADERBOARD) : f \in perms }

\* ------------------------------------------------------------- requests
\* names a client may post: one that is only trimmed, one that is trimmed and
\* cut, and the rejected ones
ShortName == Str(<<" ", "a", " ", "b", "\t">>)

LongName == Str(<<"\n", " ">> \o Rep("x", 19) \o <<" ", "y", "z", "\f", "\n">>)

BadNames ==
    { Str(<<>>), Str(<<" ", "\t">>), Str(<<"\r", "\n", "U+00A0">>), Num(5, 1),
      Num(0, 1), Undefined }

\* scores a client may post: below, at and above the lowest score of the
\* leaderboards of Init, at and above the last histogram key, and the rejected ones
GoodScores ==
    { Num(0, 1), Num(3, 1), Num(4, 1), Num(26, 1), Num(150, 1), Num(200, 1), Num(201, 1) }

BadScores == { Num(-1, 1), Num(3, 2), Str(<<"7">>), Undefined }

\* request bodies {name, score} of the runs served one at a time
Requests ==
    ({ShortName} \X GoodScores) \cup ({LongName} \X {Num(4, 1)})
        \cup (BadNames \X {Num(4, 1)}) \cup ({ShortName} \X BadScores)
        \cup {<<Undefined, Undefined>>}

\* request bodies of the concurrent runs
ConcRequests == {ShortName} \X {Num(3, 1), Num(201, 1)}

\* leaderboards the service holds after k accepted submissions of the
\* distinct ascending scores 3, 4, ..., k + 2 made before the clock's origin
PreCounts == {0, 39, 99, 100}

ConcPreCounts == {99}

PreRow(i, k) == [id |-> i, name |-> <<"p">>, score |-> i + 2, created_at |-> i - k]

PreBoard(k) == [j \in 1..k |-> PreRow(k + 1 - j, k)]

PreHistogram(k) == [s \in {ClampedScore(i + 2) : i \in 1..k} |-> 1]

\* ------------------------------------------------------------- handlers
\* the locals of one submitScore call, its response (status, madeLeaderboard,
\* percentile, rank, board), and what the tables held when it was called (kept
\* for a call that began while no other was in progress)
IdleHandler ==
    [pc |-> "idle", name |-> Undefined, score |-> Undefined,
     cleanName |-> <<>>, percentile |-> None, lowestEntry |-> None,
     currentCount |-> None, madeLeaderboard |-> FALSE, board |-> None,
     rank |-> None, status |-> 0, rowId |-> 0,
     alone |-> FALSE, preBoard |-> <<>>, preHist |-> <<>>,
     route |-> "none", body |-> "none",
     totalGames |-> None, topScore |-> None, prev |-> None]

InFlight(p) == h[p].pc \notin {"idle", "done"}

Quiescent == \A p \in Handlers : ~InFlight(p)

ServiceInit(counts) ==
    \E k \in counts :
        /\ leaderboard = PreBoard(k)
        /\ histogram = PreHistogram(k)
        /\ nextId = k + 1
        /\ clock = 0
        /\ submitted = [s \in {i + 2 : i \in 1..k} |-> 1]
        /\ requests = 0
        /\ h = [p \in Handlers |-> IdleHandler]

\* the service with no browser client attached
InitWith(counts) ==
    /\ ServiceInit(counts)
    /\ game = None /\ storage = None /\ app = None /\ last = None
    /\ heard = None /\ api = None /\ net = None

Init == InitWith(PreCounts)

InitConc == InitWith(ConcPreCounts)

\* the handlers other than p once p takes a new request: a finished handler's
\* response has been sent and its locals are gone
Others(p, q) == IF h[q].pc = "done" THEN IdleHandler ELSE h[q]

\* the request answered just before the one p takes, when the two are served
\* back to back with nothing else in progress
Previous(p) ==
    IF Quiescent /\ h[p].pc = "done"
    THEN Some([h[p] EXCEPT !.prev = None])
    ELSE None

\* lines 75-88: a POST /api/score with body {name, score} arrives at the
\* first free handler and is validated
Submit(p, name, score) ==
    /\ ~InFlight(p)
    /\ \A q \in Handlers : q < p => InFlight(q)
    /\ requests < MaxRequests
    /\ requests' = requests + 1
    /\ LET fresh == [IdleHandler EXCEPT !.name = name, !.score = score,
                         !.route = "score", !.body = "object",
                         !.prev = Previous(p),
                         !.alone = Quiescent,
                         !.preBoard = IF Quiescent THEN leaderboard ELSE <<>>,
                         !.preHist = IF Quiescent THEN histogram ELSE <<>>]
       IN  IF NameRejected(name) \/ ScoreRejected(score)
           THEN /\ h' = [q \in Handlers |->
                            IF q = p THEN [fresh EXCEPT !.pc = "done", !.status = 400]
                            ELSE Others(p, q)]
                /\ UNCHANGED submitted
           ELSE /\ h' = [q \in Handlers |->
                            IF q = p THEN [fresh EXCEPT !.pc = "upsert",
                                                       !.cleanName = CleanName(name)]
                            ELSE Others(p, q)]
                /\ submitted' = submitted (+) SetToBag({score.num})
    /\ UNCHANGED <<histogram, leaderboard, nextId, clock>>
    /\ UNCHANGED clientVars

\* a request arrives while others may be in progress
Begin(p) == \E r \in ConcRequests : Submit(p, r[1], r[2])

\* lines 90-95
Upsert(p) ==
    /\ h[p].pc = "upsert"
    /\ histogram' = HistogramUpsert(histogram, ClampedScore(h[p].score.num))
    /\ h' = [h EXCEPT ![p].pc = "percentile"]
    /\ UNCHANGED <<leaderboard, nextId, clock, submitted, requests>>
    /\ UNCHANGED clientVars

\* lines 97-98
Percentile(p) ==
    /\ h[p].pc = "percentile"
    /\ h' = [h EXCEPT ![p].pc = "lowest",
                      ![p].percentile = Some(CalculatePercentile(histogram, h[p].score.num))]
    /\ UNCHANGED <<histogram, leaderboard, nextId, clock, submitted, requests>>
    /\ UNCHANGED clientVars

\* lines 100-105
SelectLowest(p) ==
    /\ h[p].pc = "lowest"
    /\ h' = [h EXCEPT ![p].pc = "count", ![p].lowestEntry = LowestEntry(leaderboard)]
    /\ UNCHANGED <<histogram, leaderboard, nextId, clock, submitted, requests>>
    /\ UNCHANGED clientVars

\* lines 107-114: the count comes back and the admission test is made
SelectCount(p) ==
    /\ h[p].pc = "count"
    /\ LET n == Len(leaderboard)
       IN  h' = [h EXCEPT ![p].currentCount = Some(n),
                          ![p].pc = IF Admits(n, h[p].lowestEntry, h[p].score.num)
                                    THEN "insert" ELSE "board"]
    /\ UNCHANGED <<histogram, leaderboard, nextId, clock, submitted, requests>>
    /\ UNCHANGED clientVars

\* lines 115-122 (and 132 when no eviction follows); datetime('now') reads a
\* clock that never runs backwards
Insert(p) ==
    /\ h[p].pc = "insert"
    /\ \E now \in clock..MaxClock :
        /\ clock' = now
        /\ leaderboard' = InsertRow(leaderboard,
               [id |-> nextId, name |-> h[p].cleanName,
                score |-> h[p].score.num, created_at |-> now])
    /\ nextId' = nextId + 1
    /\ h' = [h EXCEPT ![p].rowId = nextId,
                      ![p].pc = IF OverLimit(h[p].currentCount[1])
                                THEN "delete" ELSE "board",
                      ![p].madeLeaderboard = ~OverLimit(h[p].currentCount[1])]
    /\ UNCHANGED <<histogram, submitted, requests>>
    /\ UNCHANGED clientVars

\* lines 122-132
DeleteLowest(p) ==
    /\ h[p].pc = "delete"
    /\ leaderboard' = Deleted(leaderboard)
    /\ h' = [h EXCEPT ![p].pc = "board", ![p].madeLeaderboard = TRUE]
    /\ UNCHANGED <<histogram, nextId, clock, submitted, requests>>
    /\ UNCHANGED clientVars

\* lines 135-145 (and 152-157 when the request did not make the leaderboard)
SelectBoard(p) ==
    /\ h[p].pc = "board"
    /\ \E b \in BoardResults(leaderboard) :
        h' = [h EXCEPT ![p].board = Some(b),
                       ![p].pc = IF h[p].madeLeaderboard THEN "rank" ELSE "done",
                       ![p].status = IF h[p].madeLeaderboard THEN 0 ELSE 200]
    /\ UNCHANGED <<histogram, leaderboard, nextId, clock, submitted, requests>>
    /\ UNCHANGED clientVars

\* lines 146-157
SelectRank(p) ==
    /\ h[p].pc = "rank"
    /\ h' = [h EXCEPT ![p].rank = RankOf(leaderboard, h[p].score.num),
                      ![p].pc = "done", ![p].status = 200]
    /\ UNCHANGED <<histogram, leaderboard, nextId, clock, submitted, requests>>
    /\ UNCHANGED clientVars

\* lines 48-51: a statement of the handler throws and fetch answers 500
Fail(p) ==
    /\ InFlight(p)
    /\ h' = [h EXCEPT ![p].pc = "done", ![p].status = 500]
    /\ UNCHANGED <<histogram, leaderboard, nextId, clock, submitted, requests>>
    /\ UNCHANGED clientVars

\* a request arrives while no other is being served
BeginAlone(p) == Quiescent /\ \E r \in Requests : Submit(p, r[1], r[2])

\* concurrently served requests, no storage failure
Next ==
    \E p \in Handlers :
        \/ Begin(p)
        \/ Upsert(p)
        \/ Percentile(p)
        \/ SelectLowest(p)
        \/ SelectCount(p)
        \/ Insert(p)
        \/ DeleteLowest(p)
        \/ SelectBoard(p)
        \/ SelectRank(p)

Spec == InitConc /\ [][Next]_vars

\* requests served one at a time, no storage failure
NextSerial ==
    \E p \in Handlers :
        \/ BeginAlone(p)
        \/ Upsert(p)
        \/ Percentile(p)
        \/ SelectLowest(p)
        \/ SelectCount(p)
        \/ Insert(p)
        \/ DeleteLowest(p)
        \/ SelectBoard(p)
        \/ SelectRank(p)

SpecSerial == Init /\ [][NextSerial]_vars

\* requests served one at a time, any statement may fail
NextFail ==
    \E p \in Handlers :
        \/ BeginAlone(p)
        \/ Upsert(p)
        \/ Percentile(p)
        \/ SelectLowest(p)
        \/ SelectCount(p)
        \/ Insert(p)
        \/ DeleteLowest(p)
        \/ SelectBoard(p)
        \/ SelectRank(p)
        \/ Fail(p)

SpecFail == Init /\ [][NextFail]_vars

\* the service after k accepted submissions of which the first two, both of
\* the lowest score 3, were made within one second: datetime('now') (line
\* 118) gave them the same created_at
TiedRow(i, k) ==
    [id |-> i, name |-> <<"p">>, score |-> Max2(i + 1, 3),
     created_at |-> Max2(i, 2) - k]

TiedBoard(k) ==
    [j \in 1..k |-> IF j = k THEN TiedRow(2, k)
                    ELSE IF j = k - 1 THEN TiedRow(1, k)
                    ELSE TiedRow(k + 1 - j, k)]

InitTied ==
    /\ leaderboard = TiedBoard(MAX_LEADERBOARD)
    /\ histogram = [s \in 3..(MAX_LEADERBOARD + 1) |-> IF s = 3 THEN 2 ELSE 1]
    /\ submitted = [s \in 3..(MAX_LEADERBOARD + 1) |-> IF s = 3 THEN 2 ELSE 1]
    /\ nextId = MAX_LEADERBOARD + 1
    /\ clock = 0
    /\ requests = 0
    /\ h = [p \in Handlers |-> IdleHandler]
    /\ game = None /\ storage = None /\ app = None /\ last = None
    /\ heard = None /\ api = None /\ net = None

SpecTied == InitTied /\ [][NextSerial]_vars

\* ---------------------------------------------------- the other routes
\* line 186: SUM(count) over score_histogram, NULL on an empty table
SumOfCounts_CountRows(hist) ==
    IF DOMAIN hist = {} THEN None ELSE Some(Cardinality(DOMAIN hist))

SumOfCounts(hist) ==
    IF DOMAIN hist = {} THEN None ELSE Some(HistTotal(hist))

\* line 190: MAX(score) over leaderboard, NULL on an empty table; the rows
\* are held highest first
MaxScore(lb) == IF Len(lb) = 0 THEN None ELSE Some(lb[1].score)

\* lines 194-195: value || 0 for a value that is NULL or a number
OrZero(v) == IF v = None THEN 0 ELSE v[1]

\* a request other than a well-formed submission arrives at the first free
\* handler while no other is being served
Accept(p, rec) ==
    /\ Quiescent
    /\ ~InFlight(p)
    /\ \A q \in Handlers : q < p => InFlight(q)
    /\ requests < MaxRequests
    /\ requests' = requests + 1
    /\ h' = [q \in Handlers |->
                IF q = p
                THEN [rec EXCEPT !.alone = TRUE, !.preBoard = leaderboard,
                                 !.preHist = histogram, !.prev = Previous(p)]
                ELSE Others(p, q)]
    /\ UNCHANGED <<histogram, leaderboard, nextId, clock, submitted>>
    /\ UNCHANGED clientVars

\* lines 35-37: GET /api/stats is routed to getStats
BeginStats(p) ==
    Accept(p, [IdleHandler EXCEPT !.route = "stats", !.pc = "statsTotal"])

\* lines 185-187
StatsTotal(p) ==
    /\ h[p].pc = "statsTotal"
    /\ h' = [h EXCEPT ![p].totalGames = SumOfCounts(histogram),
                      ![p].pc = "statsTop"]
    /\ UNCHANGED <<histogram, leaderboard, nextId, clock, submitted, requests>>
    /\ UNCHANGED clientVars

\* lines 189-196
StatsTop(p) ==
    /\ h[p].pc = "statsTop"
    /\ h' = [h EXCEPT ![p].totalGames = Some(OrZero(h[p].totalGames)),
                      ![p].topScore = Some(OrZero(MaxScore(leaderboard))),
                      ![p].pc = "done", ![p].status = 200]
    /\ UNCHANGED <<histogram, leaderboard, nextId, clock, submitted, requests>>
    /\ UNCHANGED clientVars

\* the bodies of a POST /api/score that are not an object with the two fields
\*   "unparseable"  text that is not JSON: request.json() throws
\*   "null"         the JSON value null: destructuring it throws
\*   "number", "string", "array", "emptyObject"   name and score are undefined
ThrowingBodies == {"unparseable", "null"}

FieldlessBodies == {"number", "string", "array", "emptyObject"}

\* lines 30-32, 76-77, 48-51: what submitScore does with such a body; a throw
\* is caught by fetch and answered 500
MalformedStatus(body) ==
    IF body \in ThrowingBodies THEN 500
    ELSE IF NameRejected(Undefined) THEN 400 ELSE 200

PostMalformed(p) ==
    \E body \in ThrowingBodies \cup FieldlessBodies :
        Accept(p, [IdleHandler EXCEPT !.route = "score", !.body = body,
                                      !.pc = "done",
                                      !.status = MalformedStatus(body)])

\* lines 44-46: any other path or method
NotFound(p) ==
    Accept(p, [IdleHandler EXCEPT !.route = "other", !.pc = "done",
                                  !.status = 404])

\* every route, requests served one at a time, no storage failure
NextApi ==
    \E p \in Handlers :
        \/ BeginAlone(p)
        \/ Upsert(p)
        \/ Percentile(p)
        \/ SelectLowest(p)
        \/ SelectCount(p)
        \/ Insert(p)
        \/ DeleteLowest(p)
        \/ SelectBoard(p)
        \/ SelectRank(p)
        \/ BeginStats(p)
        \/ StatsTotal(p)
        \/ StatsTop(p)
        \/ PostMalformed(p)
        \/ NotFound(p)

SpecApi == Init /\ [][NextApi]_vars

\* ====================================================== the game engine
\* src/js/game.js, class FlappyGame.  Its positions, lengths, speeds and
\* times are JavaScript numbers, and the model computes each sum, difference
\* and product as the source does, rounded to the nearest double.
\* ------------------------------------------------------- JS numbers (doubles)
\* The positions, speeds and poses of the client are IEEE 754 doubles, and
\* + - * on them round to the nearest double, ties to even.  A double is
\* held here exactly: [neg, exp, hi, lo] is the value (-1)^neg * M * 2^exp
\* with M = hi * Limb + lo and 2^52 <= M < 2^53; zero has exp = 0 and M = 0.
\* Infinities, NaN, subnormal numbers and the sign of zero are left out: no
\* value of the client reaches them.
\* In CHOOSE one \in {e(x) : x \in {d}} : TRUE, the element of a one-element
\* set, the value d is computed once, before e, as a JavaScript statement
\* computes its operands.
Piece == 2^14

Limb == 2^28

Pow2 == [i \in 0..30 |-> 2^i]

\* the number of binary digits of x, for 0 <= x < 2^31
PieceLength ==
    [x \in 0..(Piece - 1) |->
        CHOOSE n \in 0..14 : x < Pow2[n] /\ (n = 0 \/ x >= Pow2[n - 1])]

BitLength(x) ==
    IF x < Piece THEN PieceLength[x]
    ELSE IF x < Limb THEN 14 + PieceLength[x \div Piece]
    ELSE 28 + PieceLength[x \div Limb]

DZero == [neg |-> FALSE, exp |-> 0, hi |-> 0, lo |-> 0]

IsZero(a) == a.hi = 0

\* a number of up to 56 binary digits is held as [hi, lo] = hi * Limb + lo.
\* X * 2^z for 0 <= z < 56, X having at most 56 - z digits
ShiftedLeft(X, z) ==
    IF z < 28
    THEN [hi |-> (X.hi % Pow2[28 - z]) * Pow2[z] + X.lo \div Pow2[28 - z],
          lo |-> (X.lo % Pow2[28 - z]) * Pow2[z]]
    ELSE [hi |-> (X.lo % Pow2[56 - z]) * Pow2[z - 28], lo |-> 0]

\* lo with its last digit set when digits below it were dropped
Sticky(lo, lost) == IF lost /\ lo % 2 = 0 THEN lo + 1 ELSE lo

\* X / 2^k for k >= 0, the dropped digits kept as the sticky last digit
ShiftedRight(X, k) ==
    IF k = 0 THEN X
    ELSE IF k < 28
    THEN [hi |-> X.hi \div Pow2[k],
          lo |-> Sticky(X.lo \div Pow2[k] + (X.hi % Pow2[k]) * Pow2[28 - k],
                        X.lo % Pow2[k] # 0)]
    ELSE IF k < 56
    THEN [hi |-> 0,
          lo |-> Sticky(X.hi \div Pow2[k - 28],
                        X.hi % Pow2[k - 28] # 0 \/ X.lo # 0)]
    ELSE [hi |-> 0, lo |-> IF X.hi # 0 \/ X.lo # 0 THEN 1 ELSE 0]

\* the double nearest to (-1)^neg * X * 2^e, ties to even, X having exactly
\* 56 digits, the last of them sticky
Rounded(neg, X, e) ==
    LET lo == X.lo \div 8 + (X.hi % 8) * Pow2[25]
        hi == X.hi \div 8
        tail == X.lo % 8
        up == tail > 4 \/ (tail = 4 /\ lo % 2 = 1)
    IN  IF ~up THEN [neg |-> neg, exp |-> e + 3, hi |-> hi, lo |-> lo]
        ELSE IF lo + 1 < Limb THEN [neg |-> neg, exp |-> e + 3, hi |-> hi, lo |-> lo + 1]
        ELSE IF hi + 1 < Pow2[25] THEN [neg |-> neg, exp |-> e + 3, hi |-> hi + 1, lo |-> 0]
        ELSE [neg |-> neg, exp |-> e + 4, hi |-> Pow2[24], lo |-> 0]

\* M * 8 of a nonzero double
Extended(a) == [hi |-> a.hi * 8 + a.lo \div Pow2[25], lo |-> (a.lo % Pow2[25]) * 8]

\* |a| < |b| for nonzero doubles
Smaller(a, b) ==
    \/ a.exp < b.exp
    \/ a.exp = b.exp /\ (a.hi < b.hi \/ (a.hi = b.hi /\ a.lo < b.lo))

\* (-1)^neg * (hi * Limb + lo) * 2^e for a sum of two aligned numbers,
\* which has 56 or 57 digits
Added(neg, hi, lo, e) ==
    IF hi < Limb THEN Rounded(neg, [hi |-> hi, lo |-> lo], e)
    ELSE Rounded(neg, ShiftedRight([hi |-> hi, lo |-> lo], 1), e + 1)

\* the same for a difference, whose leading digits may have cancelled
Subtracted(neg, hi, lo, e, z) ==
    IF hi = 0 /\ lo = 0 THEN DZero
    ELSE Rounded(neg, ShiftedLeft([hi |-> hi, lo |-> lo], z), e - z)

\* big + small from A = M * 8 of big and B = M * 8 of small, shifted to
\* the exponent of big
Combined(big, A, B, sameSign) ==
    IF sameSign
    THEN Added(big.neg, A.hi + B.hi + (A.lo + B.lo) \div Limb,
               (A.lo + B.lo) % Limb, big.exp - 3)
    ELSE IF A.lo < B.lo
    THEN Subtracted(big.neg, A.hi - B.hi - 1, A.lo - B.lo + Limb, big.exp - 3,
                    IF A.hi - B.hi - 1 # 0
                    THEN 28 - BitLength(A.hi - B.hi - 1)
                    ELSE 56 - BitLength(A.lo - B.lo + Limb))
    ELSE Subtracted(big.neg, A.hi - B.hi, A.lo - B.lo, big.exp - 3,
                    IF A.hi - B.hi # 0
                    THEN 28 - BitLength(A.hi - B.hi)
                    ELSE 56 - BitLength(A.lo - B.lo))

\* big + small for nonzero doubles with |big| >= |small|
Aligned(big, small) ==
    CHOOSE one \in {Combined(big, A, B, big.neg = small.neg) :
                       A \in {Extended(big)},
                       B \in {ShiftedRight(Extended(small), big.exp - small.exp)}} : TRUE

\* a + b
DAdd(a, b) ==
    IF IsZero(a) THEN b
    ELSE IF IsZero(b) THEN a
    ELSE IF Smaller(a, b) THEN Aligned(b, a)
    ELSE Aligned(a, b)

DNeg(a) == IF IsZero(a) THEN a ELSE [a EXCEPT !.neg = ~@]

\* Math.abs(a)
DAbs(a) == [a EXCEPT !.neg = FALSE]

\* a - b
DSub(a, b) == DAdd(a, DNeg(b))

\* the four 14-digit pieces of M, the lowest first
Pieces(a) == <<a.lo % Piece, a.lo \div Piece, a.hi % Piece, a.hi \div Piece>>

\* the product of two significands from its four 28-digit limbs, the lowest
\* first: its leading 56 digits, the last of them sticky; s is the number of
\* digits of L3
Packed(neg, L0, L1, L2, L3, s, e) ==
    Rounded(neg,
            [hi |-> L3 * Pow2[28 - s] + L2 \div Pow2[s],
             lo |-> Sticky((L2 % Pow2[s]) * Pow2[28 - s] + L1 \div Pow2[s],
                           L1 % Pow2[s] # 0 \/ L0 # 0)],
            e + 28 + s)

\* schoolbook multiplication of the pieces p and q: the seven columns of
\* the products of the pieces
Columns(p, q) ==
    <<p[1] * q[1],
      p[1] * q[2] + p[2] * q[1],
      p[1] * q[3] + p[2] * q[2] + p[3] * q[1],
      p[1] * q[4] + p[2] * q[3] + p[3] * q[2] + p[4] * q[1],
      p[2] * q[4] + p[3] * q[3] + p[4] * q[2],
      p[3] * q[4] + p[4] * q[3],
      p[4] * q[4]>>

\* each column of c with the carry of the columns below it
Carried(c) ==
    <<c[1],
      c[2] + c[1] \div Piece,
      c[3] + (c[2] + c[1] \div Piece) \div Piece,
      c[4] + (c[3] + (c[2] + c[1] \div Piece) \div Piece) \div Piece,
      c[5] + (c[4] + (c[3] + (c[2] + c[1] \div Piece) \div Piece) \div Piece)
                \div Piece,
      c[6] + (c[5] + (c[4] + (c[3] + (c[2] + c[1] \div Piece) \div Piece)
                          \div Piece) \div Piece) \div Piece,
      c[7] + (c[6] + (c[5] + (c[4] + (c[3] + (c[2] + c[1] \div Piece) \div Piece)
                                    \div Piece) \div Piece) \div Piece)
                \div Piece>>

Multiplied(neg, p, q, e) ==
    CHOOSE one \in
        {Packed(neg,
                (t[1] % Piece) + (t[2] % Piece) * Piece,
                (t[3] % Piece) + (t[4] % Piece) * Piece,
                (t[5] % Piece) + (t[6] % Piece) * Piece,
                t[7],
                IF t[7] < Pow2[21] THEN 21 ELSE 22,
                e) : t \in {Carried(Columns(p, q))}} : TRUE

\* a * b
DMul(a, b) ==
    IF IsZero(a) \/ IsZero(b) THEN DZero
    ELSE Multiplied(a.neg # b.neg, Pieces(a), Pieces(b), a.exp + b.exp)

\* a < b
DLess(a, b) ==
    IF IsZero(a) THEN ~IsZero(b) /\ ~b.neg
    ELSE IF IsZero(b) THEN a.neg
    ELSE IF a.neg # b.neg THEN a.neg
    ELSE IF a.neg THEN Smaller(b, a)
    ELSE Smaller(a, b)

\* a > b, a <= b, a >= b
DMore(a, b) == DLess(b, a)

DAtMost(a, b) == ~DLess(b, a)

DAtLeast(a, b) == ~DLess(a, b)

\* Math.max(a, b) and Math.min(a, b)
DMax(a, b) == IF DLess(a, b) THEN b ELSE a

DMin(a, b) == IF DLess(b, a) THEN b ELSE a

\* the double of the integer n, -2^31 < n < 2^31
FromInt(n) ==
    LET m == IF n < 0 THEN 0 - n ELSE n
        z == 56 - BitLength(m)
    IN  IF n = 0 THEN DZero
        ELSE Rounded(n < 0, ShiftedLeft([hi |-> m \div Limb, lo |-> m % Limb], z), 0 - z)

\* the quotient of a significand from its three 28-digit limbs, the
\* highest first: its leading 56 digits, the last of them sticky; s is the
\* number of digits of Q2
Placed(neg, Q2, Q1, Q0, inexact, s, e) ==
    Rounded(neg,
            [hi |-> Q2 * Pow2[28 - s] + Q1 \div Pow2[s],
             lo |-> Sticky((Q1 % Pow2[s]) * Pow2[28 - s] + Q0 \div Pow2[s],
                           Q0 % Pow2[s] # 0 \/ inexact)],
            e - 28 + s)

\* long division of M * 2^28 by d, 0 < d < 2^14: t[k] is the remainder so
\* far with piece k of the dividend brought down
Divided(a, d) ==
    LET p == <<a.hi \div Piece, a.hi % Piece, a.lo \div Piece, a.lo % Piece, 0, 0>>
        t[k \in 1..6] == p[k] + IF k = 1 THEN 0 ELSE (t[k - 1] % d) * Piece
    IN  Placed(a.neg,
               (t[1] \div d) * Piece + t[2] \div d,
               (t[3] \div d) * Piece + t[4] \div d,
               (t[5] \div d) * Piece + t[6] \div d,
               t[6] % d # 0,
               BitLength((t[1] \div d) * Piece + t[2] \div d),
               a.exp)

\* the double nearest to n / d, which a decimal literal of the source
\* denotes, for 0 < d < 2^14
FromRatio(n, d) == IF n = 0 THEN DZero ELSE Divided(FromInt(n), d)

\* a / 2, which no rounding touches
Halved(a) == IF IsZero(a) THEN a ELSE [a EXCEPT !.exp = @ - 1]

\* lines 6-10
WAITING == "waiting"
PLAYING == "playing"
GAME_OVER == "game_over"

\* lines 26-49: the fields the engine never assigns after construction
radius == 25
birdSmoothingFactor == FromRatio(15, 100)
pipeWidth == 80
pipeSpawnInterval == 2000
minPipeHeight == 50
basePipeSpeed == 3
difficultyIncreaseRate == FromRatio(1, 10)
groundHeight == 50
ceilingHeight == 0
\* lines 36, 44, 220: the gap of a new engine and the cap of a resized one
widestGap == 180
\* line 129
narrowestGap == 120
\* line 129: the gap narrows by this many pixels per point
gapLossPerPoint == 2
\* lines 24, 217: the bird stays at 20% from the left
birdColumn == FromRatio(2, 10)
\* line 220: the gap is at most a quarter of the height
gapShare == FromRatio(1, 4)

NaN == Num(0, 0)

IsNaN(v) == v.den = 0

\* ------------------------------------------------ personal-best storage
Digits == <<"0", "1", "2", "3", "4", "5", "6", "7", "8", "9">>

DigitValue(c) == (CHOOSE i \in 1..10 : Digits[i] = c) - 1

IsDigit(c) == \E i \in 1..10 : Digits[i] = c

\* the value of the longest prefix of digits of s, and its length
RECURSIVE LeadingDigits(_, _, _)
LeadingDigits(s, acc, n) ==
    IF Len(s) = 0 \/ ~IsDigit(Head(s))
    THEN [value |-> acc, length |-> n]
    ELSE LeadingDigits(Tail(s), 10 * acc + DigitValue(Head(s)), n + 1)

\* parseInt(s, 10): leading whitespace is skipped, one sign is taken, the
\* digits that follow are read up to the first other character; NaN when
\* there is no digit
ParseInt(s) ==
    LET t == TrimLeft(s)
        negative == Len(t) > 0 /\ Head(t) = "-"
        signed == Len(t) > 0 /\ Head(t) \in {"-", "+"}
        d == LeadingDigits(IF signed THEN Tail(t) ELSE t, 0, 0)
    IN  IF d.length = 0 THEN NaN
        ELSE Num(IF negative THEN 0 - d.value ELSE d.value, 1)

\* Number.prototype.toString of a non-negative integer
RECURSIVE NumberToString(_)
NumberToString(n) ==
    IF n < 10 THEN <<Digits[n + 1]>>
    ELSE NumberToString(n \div 10) \o <<Digits[(n % 10) + 1]>>

\* lines 227-233: localStorage is [item, readThrows, writeThrows], item the
\* text stored under the key or None
loadHighScore_NoDefault(st) ==
    IF st.readThrows THEN Num(0, 1)
    ELSE IF st.item = None THEN NaN
    ELSE ParseInt(st.item[1])

loadHighScore(st) ==
    IF st.readThrows THEN Num(0, 1)
    ELSE IF st.item = None \/ Len(st.item[1]) = 0 THEN ParseInt(<<"0">>)
    ELSE ParseInt(st.item[1])

\* lines 238-244
saveHighScore(st, best) ==
    IF st.writeThrows THEN st ELSE [st EXCEPT !.item = Some(NumberToString(best))]

\* ------------------------------------------------------------ the engine
\* lines 13-50: new FlappyGame(canvasWidth, canvasHeight); spawned numbers the
\* obstacles in the order they are created (pipe.id), removed holds the
\* obstacles the latest call of updatePipes spliced out
Constructed(canvasWidth, canvasHeight, st) ==
    [width |-> canvasWidth, height |-> canvasHeight,
     state |-> WAITING, score |-> 0, highScore |-> loadHighScore(st),
     bird |-> [x |-> DMul(canvasWidth, birdColumn),
               y |-> Halved(canvasHeight),
               targetY |-> Halved(canvasHeight)],
     pipes |-> <<>>,
     pipeGap |-> FromInt(widestGap),
     pipeSpeed |-> FromInt(basePipeSpeed),
     lastPipeSpawn |-> DZero,
     basePipeGap |-> FromInt(widestGap),
     spawned |-> 0, removed |-> <<>>]

\* lines 60, 132
playableHeight(g) ==
    DSub(DSub(g.height, FromInt(groundHeight)), FromInt(ceilingHeight))

\* line 148: this.height - this.groundHeight
groundLine(g) == DSub(g.height, FromInt(groundHeight))

\* lines 56-65
setBirdTargetFromPose(g, normalizedY) ==
    LET padding == DMul(FromInt(radius), FromInt(2))
    IN  [g EXCEPT !.bird.targetY =
            DAdd(DAdd(FromInt(ceilingHeight), padding),
                 DMul(normalizedY,
                      DSub(playableHeight(g), DMul(padding, FromInt(2)))))]

\* lines 93-96
updateBirdPosition_Snap(g) == [g EXCEPT !.bird.y = g.bird.targetY]

updateBirdPosition(g) ==
    [g EXCEPT !.bird.y =
        DAdd(@, DMul(DSub(g.bird.targetY, @), birdSmoothingFactor))]

\* lines 100, 173: score * difficultyIncreaseRate
SpeedGain(points) == DMul(FromInt(points), difficultyIncreaseRate)

\* lines 171-174
updateDifficulty(g) ==
    [g EXCEPT !.pipeSpeed = DAdd(FromInt(basePipeSpeed), SpeedGain(g.score))]

\* line 106
Moved(pipe, currentSpeed) == [pipe EXCEPT !.x = DSub(@, currentSpeed)]

\* lines 109, 116: pipe.x + this.pipeWidth
RightEdge(pipe) == DAdd(pipe.x, FromInt(pipeWidth))

\* lines 109-113
Counted_Recount(g, i, moved) ==
    IF DLess(RightEdge(moved), g.bird.x)
    THEN updateDifficulty([g EXCEPT !.pipes[i] = [moved EXCEPT !.passed = TRUE],
                                    !.score = @ + 1])
    ELSE [g EXCEPT !.pipes[i] = moved]

Counted(g, i, moved) ==
    IF ~moved.passed /\ DLess(RightEdge(moved), g.bird.x)
    THEN updateDifficulty([g EXCEPT !.pipes[i] = [moved EXCEPT !.passed = TRUE],
                                    !.score = @ + 1])
    ELSE [g EXCEPT !.pipes[i] = moved]

\* lines 116-118: pipe is the pipe whose right edge decides
Swept(g, i, pipe) ==
    IF DLess(RightEdge(pipe), DZero)
    THEN [g EXCEPT !.pipes = RemoveAt(@, i), !.removed = Append(@, g.pipes[i])]
    ELSE g

\* lines 102-119: the loop body for pipe i, then for the pipes before it
RECURSIVE updatePipesFrom(_, _, _)
updatePipesFrom_Recount(g, i, currentSpeed) ==
    IF i = 0 THEN g
    ELSE CHOOSE one \in {updatePipesFrom(g2, i - 1, currentSpeed) :
                            g2 \in {Swept(Counted_Recount(g, i, moved), i, moved) :
                                       moved \in {Moved(g.pipes[i], currentSpeed)}}} : TRUE

updatePipesFrom_SweepBeforeMove(g, i, currentSpeed) ==
    IF i = 0 THEN g
    ELSE CHOOSE one \in {updatePipesFrom(g2, i - 1, currentSpeed) :
                            g2 \in {Swept(Counted(g, i, moved), i, g.pipes[i]) :
                                       moved \in {Moved(g.pipes[i], currentSpeed)}}} : TRUE

updatePipesFrom(g, i, currentSpeed) ==
    IF i = 0 THEN g
    ELSE CHOOSE one \in {updatePipesFrom(g2, i - 1, currentSpeed) :
                            g2 \in {Swept(Counted(g, i, moved), i, moved) :
                                       moved \in {Moved(g.pipes[i], currentSpeed)}}} : TRUE

\* lines 98-120; removed keeps the pipes this call has spliced out, as they
\* were then
updatePipes(g) ==
    CHOOSE one \in {updatePipesFrom([g EXCEPT !.removed = <<>>], Len(g.pipes), currentSpeed) :
                       currentSpeed \in {DAdd(g.pipeSpeed, SpeedGain(g.score))}} : TRUE

\* lines 145-169
checkCollisions_TopOnly(g) ==
    \/ DLess(DSub(g.bird.y, FromInt(radius)), FromInt(ceilingHeight))
    \/ DMore(DAdd(g.bird.y, FromInt(radius)), groundLine(g))
    \/ \E i \in 1..Len(g.pipes) :
          /\ DMore(DAdd(g.bird.x, FromInt(radius)), g.pipes[i].x)
          /\ DLess(DSub(g.bird.x, FromInt(radius)),
                   DAdd(g.pipes[i].x, FromInt(pipeWidth)))
          /\ DLess(DSub(g.bird.y, FromInt(radius)), g.pipes[i].gapTop)

checkCollisions(g) ==
    \/ DLess(DSub(g.bird.y, FromInt(radius)), FromInt(ceilingHeight))
    \/ DMore(DAdd(g.bird.y, FromInt(radius)), groundLine(g))
    \/ \E i \in 1..Len(g.pipes) :
          /\ DMore(DAdd(g.bird.x, FromInt(radius)), g.pipes[i].x)
          /\ DLess(DSub(g.bird.x, FromInt(radius)),
                   DAdd(g.pipes[i].x, FromInt(pipeWidth)))
          /\ \/ DLess(DSub(g.bird.y, FromInt(radius)), g.pipes[i].gapTop)
             \/ DMore(DAdd(g.bird.y, FromInt(radius)), g.pipes[i].gapBottom)

\* line 194: score > highScore, false against NaN
Exceeds(points, best) == ~IsNaN(best) /\ points * best.den > best.num

\* lines 190-198, the engine's part
gameOver_Overwrite(g) ==
    [g EXCEPT !.state = GAME_OVER, !.highScore = Num(g.score, 1)]

gameOver(g) ==
    [g EXCEPT !.state = GAME_OVER,
              !.highScore = IF Exceeds(g.score, @) THEN Num(g.score, 1) ELSE @]

\* lines 194-197, the storage's part
gameOverStorage(g, st) ==
    IF Exceeds(g.score, g.highScore) THEN saveHighScore(st, g.score) ELSE st

\* lines 122-143: r is the value Math.random() returns
willSpawn_Strict(g, deltaTime) ==
    DMore(DAdd(g.lastPipeSpawn, deltaTime), FromInt(pipeSpawnInterval))

willSpawn(g, deltaTime) ==
    DAtLeast(DAdd(g.lastPipeSpawn, deltaTime), FromInt(pipeSpawnInterval))

\* lines 131-141: the pair pushed for the gap currentGap
Spawned(g, gapTop, currentGap) ==
    [g EXCEPT !.lastPipeSpawn = DZero,
              !.spawned = @ + 1,
              !.pipes = Append(@, [id |-> g.spawned + 1,
                                   x |-> g.width,
                                   gapTop |-> gapTop,
                                   gapBottom |-> DAdd(gapTop, currentGap),
                                   passed |-> FALSE])]

\* lines 132-134: minPipeHeight + Math.random() * maxGapTop
GapTop(g, r, currentGap) ==
    CHOOSE one \in
        {DAdd(FromInt(minPipeHeight), DMul(r, maxGapTop)) :
            maxGapTop \in {DSub(DSub(playableHeight(g), currentGap),
                                FromInt(minPipeHeight))}} : TRUE

\* lines 132-141: the pair pushed for the gap currentGap at the height that
\* r decides
Gapped(g, r, currentGap) ==
    CHOOSE one \in {Spawned(g, gapTop, currentGap) :
                       gapTop \in {GapTop(g, r, currentGap)}} : TRUE

\* line 129
CurrentGap_NoFloor(g) ==
    DSub(g.basePipeGap, DMul(FromInt(g.score), FromInt(gapLossPerPoint)))

CurrentGap(g) ==
    DMax(FromInt(narrowestGap),
         DSub(g.basePipeGap, DMul(FromInt(g.score), FromInt(gapLossPerPoint))))

spawnPipes_NoFloor(g, deltaTime, r) ==
    IF willSpawn(g, deltaTime)
    THEN CHOOSE one \in {Gapped(g, r, currentGap) :
                            currentGap \in {CurrentGap_NoFloor(g)}} : TRUE
    ELSE [g EXCEPT !.lastPipeSpawn = DAdd(@, deltaTime)]

spawnPipes(g, deltaTime, r) ==
    IF willSpawn(g, deltaTime)
    THEN CHOOSE one \in {Gapped(g, r, currentGap) :
                            currentGap \in {CurrentGap(g)}} : TRUE
    ELSE [g EXCEPT !.lastPipeSpawn = DAdd(@, deltaTime)]

\* the engine after lines 79-82 of update, with the verdict of line 84
afterCollisionCheck(g) ==
    CHOOSE one \in {[hit |-> checkCollisions(g2), game |-> g2] :
                       g2 \in {updatePipes(updateBirdPosition(g))}} : TRUE

\* lines 84-86
Collided(c) == IF c.hit THEN gameOver(c.game) ELSE c.game

\* lines 71-91
update_NoEarlyReturn(g, deltaTime, r) ==
    CHOOSE one \in {spawnPipes(g3, deltaTime, r) : g3 \in {Collided(afterCollisionCheck(g))}} : TRUE

update_FrozenWhenOver(g, deltaTime, r) ==
    IF g.state = GAME_OVER THEN g
    ELSE IF g.state # PLAYING THEN updateBirdPosition(g)
    ELSE CHOOSE one \in {spawnPipes(g3, deltaTime, r) :
                            g3 \in {Collided(afterCollisionCheck(g))}} : TRUE

update(g, deltaTime, r) ==
    IF g.state # PLAYING THEN updateBirdPosition(g)
    ELSE CHOOSE one \in {spawnPipes(g3, deltaTime, r) :
                            g3 \in {Collided(afterCollisionCheck(g))}} : TRUE

\* lines 84-86, the storage's part
StorageAfter(c, st) == IF c.hit THEN gameOverStorage(c.game, st) ELSE st

updateStorage(g, st) ==
    IF g.state = PLAYING THEN StorageAfter(afterCollisionCheck(g), st) ELSE st

\* lines 179-185
start_Guarded(g) ==
    IF g.state = PLAYING THEN g
    ELSE [g EXCEPT !.state = PLAYING, !.score = 0, !.pipes = <<>>,
                   !.lastPipeSpawn = DZero, !.pipeSpeed = FromInt(basePipeSpeed)]

start(g) ==
    [g EXCEPT !.state = PLAYING, !.score = 0, !.pipes = <<>>,
              !.lastPipeSpawn = DZero, !.pipeSpeed = FromInt(basePipeSpeed)]

\* lines 203-209
reset(g) ==
    [g EXCEPT !.state = WAITING, !.score = 0, !.pipes = <<>>,
              !.lastPipeSpawn = DZero, !.pipeSpeed = FromInt(basePipeSpeed)]

\* lines 214-222
resize_ClearsField(g, newWidth, newHeight) ==
    LET gap == DMin(FromInt(widestGap), DMul(newHeight, gapShare))
    IN  [g EXCEPT !.width = newWidth, !.height = newHeight,
                  !.bird.x = DMul(newWidth, birdColumn),
                  !.pipeGap = gap, !.basePipeGap = gap, !.pipes = <<>>]

resize(g, newWidth, newHeight) ==
    LET gap == DMin(FromInt(widestGap), DMul(newHeight, gapShare))
    IN  [g EXCEPT !.width = newWidth, !.height = newHeight,
                  !.bird.x = DMul(newWidth, birdColumn),
                  !.pipeGap = gap, !.basePipeGap = gap]

\* ------------------------------------------------- the engine's callers
\* canvas sizes in whole pixels: a desktop window and a strip lower than the
\* bird needs
Desktop == <<FromInt(800), FromInt(600)>>

Strip == <<FromInt(200), FromInt(120)>>

Canvases == {Desktop, Strip}

\* what localStorage may hold and do when the page loads
Storages ==
    { [item |-> None, readThrows |-> FALSE, writeThrows |-> FALSE],
      [item |-> None, readThrows |-> FALSE, writeThrows |-> TRUE],
      [item |-> Some(<<"7">>), readThrows |-> TRUE, writeThrows |-> FALSE],
      [item |-> Some(<<>>), readThrows |-> FALSE, writeThrows |-> FALSE],
      [item |-> Some(<<"1", "2">>), readThrows |-> FALSE, writeThrows |-> FALSE],
      [item |-> Some(<<"a", "b", "c">>), readThrows |-> FALSE, writeThrows |-> FALSE],
      [item |-> Some(<<"-", "5">>), readThrows |-> FALSE, writeThrows |-> FALSE] }

DefaultStorage == [item |-> None, readThrows |-> FALSE, writeThrows |-> FALSE]

\* values of normalizedY, of deltaTime (ms) and of Math.random()
Poses == {FromInt(0), FromInt(1)}

frameTime == FromInt(16)

longFrame == FromInt(2000)

DeltaTimes == {frameTime, longFrame}

midRandom == FromRatio(1, 2)

Randoms == {FromInt(0), midRandom, FromRatio(9, 10)}

\* g after n more ticks of update(16 ms) with Math.random() = 1/2: the n
\* ticks are taken as four runs of about n / 4 ticks, each from the state in
\* which the run before it ended
RECURSIVE Coast(_, _)
Coast(g, n) ==
    CASE n = 0 -> g
      [] n = 1 -> update(g, frameTime, midRandom)
      [] OTHER ->
           CHOOSE y \in
               {Coast(x3, n \div 4) :
                   x3 \in {Coast(x2, (n + 1) \div 4) :
                       x2 \in {Coast(x1, (n + 2) \div 4) :
                           x1 \in {Coast(g, (n + 3) \div 4)}}}} : TRUE

\* a run on the desktop canvas with the bird at rest: started, its first
\* pipe spawned by a long first frame, then n frames of 16 ms
MidRun(n) ==
    CHOOSE one \in {Coast(g, n) :
                       g \in {update(start(Constructed(Desktop[1], Desktop[2], DefaultStorage)),
                                     longFrame, midRandom)}} : TRUE

\* the frames after which the first pipe is about to be passed, and those
\* after which thirty pipes have been passed and the next is about to spawn
MidRunFrames == {239, 3748}

\* the frames after which the first pipe is two ticks from leaving the field
SweepFrames == {289}

\* the engine in the middle of a run, its first pipe about to leave
InitSweep ==
    /\ ServiceInit({0})
    /\ app = None
    /\ heard = None /\ api = None /\ net = None
    /\ \E n \in SweepFrames :
          /\ storage = DefaultStorage
          /\ game = MidRun(n)
          /\ last = [op |-> "update", before |-> MidRun(n - 1), deltaTime |-> frameTime,
                     calls |-> 0, ticks |-> 0]

\* the engine as constructed, or in the middle of a run
InitEngine ==
    /\ ServiceInit({0})
    /\ app = None
    /\ heard = None /\ api = None /\ net = None
    /\ \/ \E c \in Canvases, st \in Storages :
             /\ storage = st
             /\ game = Constructed(c[1], c[2], st)
             /\ last = [op |-> "new", before |-> game, calls |-> 0, ticks |-> 0]
       \/ \E n \in MidRunFrames :
             /\ storage = DefaultStorage
             /\ game = MidRun(n)
             /\ last = [op |-> "update", before |-> MidRun(n - 1), deltaTime |-> frameTime,
                        calls |-> 0, ticks |-> 0]

Called(name) ==
    /\ last.calls < MaxCalls
    /\ last' = [op |-> name, before |-> game, calls |-> last.calls + 1,
                ticks |-> last.ticks]
    /\ UNCHANGED <<storage, app, heard, api, net>>
    /\ UNCHANGED serverVars

Start == game' = start(game) /\ Called("start")

Reset == game' = reset(game) /\ Called("reset")

Resize == \E c \in Canvases : game' = resize(game, c[1], c[2]) /\ Called("resize")

SetBirdTarget ==
    \E n \in Poses : game' = setBirdTargetFromPose(game, n) /\ Called("setBirdTargetFromPose")

\* one call of update; Math.random() is drawn only when a pipe is spawned
Update ==
    /\ last.ticks < MaxTicks
    /\ \E deltaTime \in DeltaTimes :
         LET spawns == game.state = PLAYING /\ willSpawn(game, deltaTime)
         IN  /\ spawns => Len(game.pipes) < MaxPipes
             /\ \E r \in IF spawns THEN Randoms ELSE {DZero} :
                    game' = update(game, deltaTime, r)
             /\ last' = [op |-> "update", before |-> game, deltaTime |-> deltaTime,
                         calls |-> last.calls, ticks |-> last.ticks + 1]
    /\ storage' = updateStorage(game, storage)
    /\ UNCHANGED <<app, heard, api, net>>
    /\ UNCHANGED serverVars

NextEngine ==
    \/ Start
    \/ Reset
    \/ Resize
    \/ SetBirdTarget
    \/ Update

SpecEngine == InitEngine /\ [][NextEngine]_vars

SpecSweep == InitSweep /\ [][NextEngine]_vars

\* ======================================================== the app loop
\* src/js/main.js, class FlappyPushupApp: the movement detector and one
\* frame of gameLoop
movementThreshold == FromRatio(5, 100)

\* line 180
cooldownFrames == 30

\* lines 22-26
AppConstructed ==
    [lastShoulderY |-> FromRatio(1, 2), movementDetected |-> FALSE, movementCooldown |-> 0]

\* line 176: Math.abs(a - b) > c
FartherThan(a, b, c) == DMore(DAbs(DSub(a, b)), c)

\* lines 168-184
detectMovement_ShortCooldown(a, currentY) ==
    IF a.movementCooldown > 0 THEN [a EXCEPT !.movementCooldown = @ - 1]
    ELSE IF FartherThan(currentY, a.lastShoulderY, movementThreshold)
         THEN [a EXCEPT !.movementDetected = TRUE,
                        !.movementCooldown = cooldownFrames - 1,
                        !.lastShoulderY = currentY]
         ELSE [a EXCEPT !.lastShoulderY = currentY]

detectMovement_StaleOnIntent(a, currentY) ==
    IF a.movementCooldown > 0 THEN [a EXCEPT !.movementCooldown = @ - 1]
    ELSE IF FartherThan(currentY, a.lastShoulderY, movementThreshold)
         THEN [a EXCEPT !.movementDetected = TRUE,
                        !.movementCooldown = cooldownFrames]
         ELSE [a EXCEPT !.lastShoulderY = currentY]

detectMovement(a, currentY) ==
    IF a.movementCooldown > 0 THEN [a EXCEPT !.movementCooldown = @ - 1]
    ELSE IF FartherThan(currentY, a.lastShoulderY, movementThreshold)
         THEN [a EXCEPT !.movementDetected = TRUE,
                        !.movementCooldown = cooldownFrames,
                        !.lastShoulderY = currentY]
         ELSE [a EXCEPT !.lastShoulderY = currentY]

\* lines 186-198
handleStateTransitions_AnyState(g, a) ==
    IF g.state = WAITING /\ a.movementDetected
    THEN [game |-> start(g), app |-> [a EXCEPT !.movementDetected = FALSE]]
    ELSE IF g.state # WAITING /\ a.movementDetected
         THEN [game |-> reset(g), app |-> [a EXCEPT !.movementDetected = FALSE]]
         ELSE [game |-> g, app |-> a]

handleStateTransitions(g, a) ==
    IF g.state = WAITING /\ a.movementDetected
    THEN [game |-> start(g), app |-> [a EXCEPT !.movementDetected = FALSE]]
    ELSE IF g.state = GAME_OVER /\ a.movementDetected
         THEN [game |-> reset(g), app |-> [a EXCEPT !.movementDetected = FALSE]]
         ELSE [game |-> g, app |-> a]

\* lines 176-179: a call of detectMovement that took a to a1 emitted an
\* intent; movementCooldown is set only together with movementDetected
Emitted(a, a1) == a.movementCooldown = 0 /\ a1.movementCooldown > 0

\* nothing emitted yet: quiet counts the detector ticks since the last
\* emission (None before the first, counted up to cooldownFrames + 1), pending
\* holds the engine states in which the intents not yet acted on were emitted
NothingHeard == [quiet |-> None, pending |-> {}]

\* lines 151-159: what has been heard after the detector tick of a frame that
\* began in engine state st and took the detector from a to a1
Heard(hd, pose, st, a, a1) ==
    IF pose = None THEN hd
    ELSE IF Emitted(a, a1)
         THEN [quiet |-> Some(0), pending |-> hd.pending \cup {st}]
         ELSE IF hd.quiet = None THEN hd
              ELSE [hd EXCEPT !.quiet = Some(Min2(@[1] + 1, cooldownFrames + 1))]

\* lines 149-166: one call of FlappyPushupApp.update on the world w = [game,
\* app, storage, heard]; pose is None when no pose is detected, else Some of
\* the normalized shoulder height.  Kept with the result: the engine before
\* the frame (before), the engine as game.update left it (mid), the
\* movementDetected flag as handleStateTransitions found it (intent), the
\* pose, the detector before the frame (appBefore), and what had been heard
\* before the frame (heardBefore) and when handleStateTransitions ran
\* (answered)
\* g1 and a1 are the engine and the detector after lines 151-159, h1 what
\* has been heard by then, g2 the engine after line 162 and t the result of
\* line 165
Transitioned(w, pose, g1, a1, h1, g2, t) ==
    [game |-> t.game, app |-> t.app, storage |-> updateStorage(g1, w.storage),
     heard |-> IF a1.movementDetected /\ ~t.app.movementDetected
               THEN [h1 EXCEPT !.pending = {}] ELSE h1,
     before |-> w.game, mid |-> g2, intent |-> a1.movementDetected,
     pose |-> pose, appBefore |-> w.app, heardBefore |-> w.heard,
     answered |-> h1]

Updated(w, pose, g1, a1, g2) ==
    CHOOSE one \in {Transitioned(w, pose, g1, a1, h1, g2, t) :
                       h1 \in {Heard(w.heard, pose, w.game.state, w.app, a1)},
                       t \in {handleStateTransitions(g2, a1)}} : TRUE

Posed(w, pose, g1, a1, deltaTime, r) ==
    CHOOSE one \in {Updated(w, pose, g1, a1, g2) : g2 \in {update(g1, deltaTime, r)}} : TRUE

appUpdate(w, pose, deltaTime, r) ==
    CHOOSE one \in {Posed(w, pose, g1, a1, deltaTime, r) :
                       g1 \in {IF pose = None THEN w.game
                               ELSE setBirdTargetFromPose(w.game, pose[1])},
                       a1 \in {IF pose = None THEN w.app
                               ELSE detectMovement(w.app, pose[1])}} : TRUE

\* w after n more frames of 16 ms with the same pose
RECURSIVE AppCoast(_, _, _)
AppCoast(w, pose, n) ==
    CASE n = 0 -> w
      [] n = 1 -> appUpdate(w, pose, frameTime, midRandom)
      [] OTHER ->
           CHOOSE y \in
               {AppCoast(x3, pose, n \div 4) :
                   x3 \in {AppCoast(x2, pose, (n + 1) \div 4) :
                       x2 \in {AppCoast(x1, pose, (n + 2) \div 4) :
                           x1 \in {AppCoast(w, pose, (n + 3) \div 4)}}}} : TRUE

\* the app on a canvas c as loaded
AppLoaded(c) ==
    [game |-> Constructed(c[1], c[2], DefaultStorage), app |-> AppConstructed,
     storage |-> DefaultStorage, heard |-> NothingHeard]

\* the frames of a held pose after which the smoothing step no longer moves
\* the avatar, on either canvas
SettledFrames == 227

\* the frames after which the cooldown of the first detected movement has two
\* more ticks to run, or is long over, the avatar having settled
AppMidRunFrames == {cooldownFrames - 1, SettledFrames}

\* the frame w, the result of appUpdate, as the operation performed last
LastFrame(w, calls, ticks) ==
    [op |-> "frame", before |-> w.before, mid |-> w.mid, intent |-> w.intent,
     pose |-> w.pose, appBefore |-> w.appBefore, heardBefore |-> w.heardBefore,
     answered |-> w.answered, calls |-> calls, ticks |-> ticks]

FramePoses == {None} \cup {Some(n) : n \in Poses}

\* the value of Math.random() in the frames of the app
FrameRandoms == {midRandom}

\* the app as loaded, or after a first movement (shoulders up) and the
\* frames of its cooldown with the shoulders held there
InitApp ==
    /\ ServiceInit({0})
    /\ api = None /\ net = None
    /\ \E c \in Canvases :
          \/ \E w \in {AppLoaded(c)} :
                /\ game = w.game
                /\ app = w.app
                /\ storage = w.storage
                /\ heard = w.heard
                /\ last = [op |-> "new", before |-> game, calls |-> 0, ticks |-> 0]
          \/ \E n \in AppMidRunFrames :
                \E w \in {AppCoast(AppLoaded(c), Some(FromInt(0)), n)} :
                    /\ game = w.game
                    /\ app = w.app
                    /\ storage = w.storage
                    /\ heard = w.heard
                    /\ last = LastFrame(w, 0, 0)

\* one frame of gameLoop
Frame ==
    /\ last.ticks < MaxTicks
    /\ \E pose \in FramePoses, deltaTime \in DeltaTimes :
         LET spawns == game.state = PLAYING /\ willSpawn(game, deltaTime)
         IN  /\ spawns => Len(game.pipes) < MaxPipes
             /\ \E r \in FrameRandoms :
                  \E w \in {appUpdate([game |-> game, app |-> app,
                                       storage |-> storage, heard |-> heard],
                                      pose, deltaTime, r)} :
                      /\ game' = w.game
                      /\ app' = w.app
                      /\ storage' = w.storage
                      /\ heard' = w.heard
                      /\ last' = LastFrame(w, last.calls, last.ticks + 1)
    /\ UNCHANGED <<api, net>>
    /\ UNCHANGED serverVars

\* lines 119-131: the window is resized
HandleResize == Resize

NextApp ==
    \/ Frame
    \/ HandleResize

SpecApp == InitApp /\ [][NextApp]_vars

\* ------------------------------------------------- the leaderboard client
\* src/unnamed/part_001, class LeaderboardAPI

\* the calls issued to the service, and the times the clock is read to advance
MaxFetches == 3
MaxWaits == 2

\* line 13, in ms
cacheTimeout == 30000

\* lines 10-14
ApiConstructed == [cachedLeaderboard |-> None, lastFetch |-> 0]

\* line 21: Date.now() once the page has loaded, in ms
LoadedAt == 100000

\* the time that passes between two events of the page, in ms
Elapses == {10000, 29999}

\* the lists of rows the service answers with, a row standing as its score
Boards == {<<>>, <<7>>}

\* what a fetch comes to: no response at all (arrived is FALSE), or a response
\* with its ok flag and a body that is not JSON ("invalid"), is the JSON null
\* ("null"), or is an object, with or without a leaderboard
NoResponse == [arrived |-> FALSE, ok |-> FALSE, body |-> "invalid", leaderboard |-> None]

Response(ok, body, rows) ==
    [arrived |-> TRUE, ok |-> ok, body |-> body, leaderboard |-> rows]

\* src/worker/index.js lines 58-69 and 44-49: the answers to GET
\* /api/leaderboard, and those of anything else that answers in its place
Responses ==
    {NoResponse, Response(FALSE, "object", None), Response(TRUE, "invalid", None),
     Response(TRUE, "null", None), Response(TRUE, "object", None)}
        \cup {Response(TRUE, "object", Some(b)) : b \in Boards}

\* src/worker/index.js lines 153-158, 79-97 and 44-49: the answers to POST
\* /api/score
SubmitResponses ==
    {NoResponse, Response(FALSE, "object", None), Response(TRUE, "invalid", None)}
        \cup {Response(TRUE, "object", Some(b)) : b \in Boards}

\* lines 30-34, 62-66: the response is ok and response.json() gives an object
Parsed(resp) == resp.arrived /\ resp.ok /\ resp.body = "object"

\* x || [] for x null, undefined or a list
OrEmpty(x) == IF x = None THEN <<>> ELSE x[1]

\* lines 21-26: getLeaderboard answers from the cache at time now; null is
\* falsy and every list, the empty one too, is truthy
servedFromCache(a, forceRefresh, now) ==
    /\ ~forceRefresh
    /\ a.cachedLeaderboard # None
    /\ now - a.lastFetch < cacheTimeout

\* lines 28-43: the rest of the call of getLeaderboard that read the clock at
\* now, once its fetch has come to resp
getLeaderboardSettled_NoStatusCheck(a, now, resp) ==
    IF resp.arrived /\ resp.body = "object"
    THEN [api |-> [cachedLeaderboard |-> Some(OrEmpty(resp.leaderboard)),
                   lastFetch |-> now],
          returned |-> OrEmpty(resp.leaderboard), threw |-> FALSE]
    ELSE [api |-> a, returned |-> OrEmpty(a.cachedLeaderboard), threw |-> FALSE]

getLeaderboardSettled(a, now, resp) ==
    IF Parsed(resp)
    THEN [api |-> [cachedLeaderboard |-> Some(OrEmpty(resp.leaderboard)),
                   lastFetch |-> now],
          returned |-> OrEmpty(resp.leaderboard), threw |-> FALSE]
    ELSE [api |-> a, returned |-> OrEmpty(a.cachedLeaderboard), threw |-> FALSE]

\* lines 62-85: the rest of a call of submitScore once its fetch has come to
\* resp, Date.now() then being now
submitScoreSettled(a, now, resp) ==
    IF Parsed(resp)
    THEN [api |-> IF resp.leaderboard # None
                  THEN [cachedLeaderboard |-> resp.leaderboard, lastFetch |-> now]
                  ELSE a,
          returned |-> resp.leaderboard, failed |-> FALSE]
    ELSE [api |-> a, returned |-> Some(OrEmpty(a.cachedLeaderboard)), failed |-> TRUE]

\* the page as loaded: no call in flight; freshAt is the latest time at which
\* a fetch that succeeded was started or a submit that succeeded finished,
\* lastGood the list that the latest success gave
InitCache ==
    /\ ServiceInit({0})
    /\ game = None /\ storage = None /\ app = None /\ heard = None
    /\ api = ApiConstructed
    /\ net = [now |-> LoadedAt, pending |-> {}, issued |-> 0, waits |-> 0,
              freshAt |-> None, lastGood |-> None]
    /\ last = [op |-> "new"]

CacheUnchanged == UNCHANGED <<game, storage, app, heard>> /\ UNCHANGED serverVars

\* time passes
Wait ==
    /\ net.waits < MaxWaits
    /\ \E d \in Elapses : net' = [net EXCEPT !.now = @ + d, !.waits = @ + 1]
    /\ last' = [op |-> "wait"]
    /\ UNCHANGED api
    /\ CacheUnchanged

Issue(call) ==
    [net EXCEPT !.pending = @ \cup {[id |-> net.issued + 1, call |-> call,
                                     now |-> net.now, overtaken |-> FALSE]},
                !.issued = @ + 1]

\* the calls in flight once the submission of call q has been answered by
\* resp: when the service accepted it, the fetches still in flight are
\* overtaken, the service may have answered them before it committed the
\* submission
Overtaking(pending, q, resp) ==
    {IF Parsed(resp) /\ x.call = "getLeaderboard"
     THEN [x EXCEPT !.overtaken = TRUE] ELSE x : x \in pending \ {q}}

\* whether the service issued the answer to the fetch q before it committed
\* a submission that the client has since seen accepted
PreCommits(q) == IF q.overtaken THEN BOOLEAN ELSE {FALSE}

\* lines 20-29: getLeaderboard(forceRefresh) up to its return or its fetch
GetLeaderboard ==
    /\ \E forceRefresh \in BOOLEAN :
          IF servedFromCache(api, forceRefresh, net.now)
          THEN /\ net' = net
               /\ last' = [op |-> "getLeaderboard", forceRefresh |-> forceRefresh,
                           requested |-> FALSE, returned |-> api.cachedLeaderboard]
          ELSE /\ net.issued < MaxFetches
               /\ net' = Issue("getLeaderboard")
               /\ last' = [op |-> "getLeaderboard", forceRefresh |-> forceRefresh,
                           requested |-> TRUE, returned |-> None]
    /\ UNCHANGED api
    /\ CacheUnchanged

\* lines 28-43: the fetch of a call of getLeaderboard settles
GetLeaderboardSettles ==
    /\ \E q \in net.pending, resp \in Responses, preCommit \in BOOLEAN :
          /\ q.call = "getLeaderboard"
          /\ preCommit \in PreCommits(q)
          /\ LET s == getLeaderboardSettled(api, q.now, resp)
             IN  /\ api' = s.api
                 /\ net' = [net EXCEPT
                       !.pending = @ \ {q},
                       !.freshAt = IF ~Parsed(resp) THEN @
                                   ELSE IF @ = None THEN Some(q.now)
                                   ELSE Some(Max2(@[1], q.now)),
                       !.lastGood = IF Parsed(resp)
                                    THEN Some(OrEmpty(resp.leaderboard)) ELSE @]
                 /\ last' = [op |-> "getLeaderboardSettled", resp |-> resp,
                             apiBefore |-> api, goodBefore |-> net.lastGood,
                             returned |-> s.returned, threw |-> s.threw,
                             preCommit |-> preCommit]
    /\ CacheUnchanged

\* lines 52-60: submitScore(name, score) up to its fetch
SubmitScore ==
    /\ net.issued < MaxFetches
    /\ net' = Issue("submitScore")
    /\ last' = [op |-> "submitScore"]
    /\ UNCHANGED api
    /\ CacheUnchanged

\* lines 62-85: the fetch of a call of submitScore settles
SubmitScoreSettles ==
    /\ \E q \in net.pending, resp \in SubmitResponses :
          /\ q.call = "submitScore"
          /\ LET s == submitScoreSettled(api, net.now, resp)
             IN  /\ api' = s.api
                 /\ net' = [net EXCEPT
                       !.pending = Overtaking(@, q, resp),
                       !.freshAt = IF Parsed(resp) THEN Some(net.now) ELSE @,
                       !.lastGood = IF Parsed(resp) THEN resp.leaderboard ELSE @]
                 /\ last' = [op |-> "submitScoreSettled", resp |-> resp,
                             apiBefore |-> api, returned |-> s.returned,
                             failed |-> s.failed]
    /\ CacheUnchanged

NextCache ==
    \/ Wait
    \/ GetLeaderboard
    \/ GetLeaderboardSettles
    \/ SubmitScore
    \/ SubmitScoreSettles

SpecCache == InitCache /\ [][NextCache]_vars

\* ---------------------------------------------------- the game-over screen
\* src/unnamed/part_000, class FlappyPushupApp: the submit form, the play
\* again button and the leaderboard state

\* line 32
GAME_OVER_COOLDOWN_FRAMES == 120

\* lines 24-52 and 56-73: the app once initialize() has set up the game and
\* called fetchLeaderboard(); the form and the button are hidden, savedName
\* is the item flappyPushupName of localStorage
FormConstructed ==
    [lastShoulderY |-> FromRatio(1, 2), movementDetected |-> FALSE,
     movementCooldown |-> 0, gameOverCooldown |-> 0,
     lastGameState |-> None, leaderboard |-> <<>>,
     percentile |-> None, rank |-> None, scoreSubmitted |-> FALSE,
     leaderboardFetched |-> FALSE, formHidden |-> TRUE,
     playAgainHidden |-> TRUE, btnDisabled |-> FALSE, savedName |-> None]

\* lines 235-290; fetch tells whether fetchLeaderboard() is called
handleStateTransitionsUI(g, a) ==
    LET entered == g.state = GAME_OVER /\ a.lastGameState # Some(GAME_OVER)
        a1 == IF entered
              THEN [a EXCEPT !.gameOverCooldown = GAME_OVER_COOLDOWN_FRAMES,
                             !.movementDetected = FALSE]
              ELSE a
        a2 == [a1 EXCEPT !.lastGameState = Some(g.state),
                         !.gameOverCooldown = IF @ > 0 THEN @ - 1 ELSE @]
        starts == g.state = WAITING /\ a2.movementDetected
        hidden == [a2 EXCEPT !.formHidden = TRUE, !.playAgainHidden = TRUE]
    IN  [game |-> IF starts THEN start(g) ELSE g,
         app |-> IF starts
                 THEN [hidden EXCEPT !.movementDetected = FALSE,
                                     !.scoreSubmitted = FALSE,
                                     !.percentile = None, !.rank = None]
                 ELSE IF g.state = GAME_OVER
                      THEN [a2 EXCEPT
                              !.formHidden = ~(g.score > 0 /\ ~a2.scoreSubmitted),
                              !.playAgainHidden = a2.gameOverCooldown # 0]
                      ELSE hidden,
         fetch |-> entered /\ ~a.leaderboardFetched]

\* lines 111-121: fetchLeaderboard() once getLeaderboard() has returned rows
fetchLeaderboardResumes(a, rows) ==
    [a EXCEPT !.leaderboard = rows, !.leaderboardFetched = TRUE]

\* lines 198-215: one call of FlappyPushupApp.update on the world w = [game,
\* app, storage]; pose is None when no pose is detected, else Some of the
\* normalized shoulder height.  detectMovement, lines 217-233, reads as it
\* does in src/js/main.js
FormResult(t, st) ==
    [game |-> t.game, app |-> t.app, storage |-> st, fetch |-> t.fetch]

\* g1 and a1 are the engine and the detector after lines 200-208
FormPosed(w, g1, a1, deltaTime, r) ==
    CHOOSE one \in {FormResult(handleStateTransitionsUI(g2, a1), st) :
                       g2 \in {update(g1, deltaTime, r)},
                       st \in {updateStorage(g1, w.storage)}} : TRUE

formUpdate(w, pose, deltaTime, r) ==
    CHOOSE one \in {FormPosed(w, g1, a1, deltaTime, r) :
                       g1 \in {IF pose = None THEN w.game
                               ELSE setBirdTargetFromPose(w.game, pose[1])},
                       a1 \in {IF pose = None THEN w.app
                               ELSE detectMovement(w.app, pose[1])}} : TRUE

\* w after n more frames of 16 ms with the same pose, none of which calls
\* fetchLeaderboard()
RECURSIVE FormCoast(_, _, _)
FormCoast(w, pose, n) ==
    CASE n = 0 -> w
      [] n = 1 -> formUpdate(w, pose, frameTime, midRandom)
      [] OTHER ->
           CHOOSE y \in
               {FormCoast(x3, pose, n \div 4) :
                   x3 \in {FormCoast(x2, pose, (n + 1) \div 4) :
                       x2 \in {FormCoast(x1, pose, (n + 2) \div 4) :
                           x1 \in {FormCoast(w, pose, (n + 3) \div 4)}}}} : TRUE

\* lines 292-299
handlePlayAgain(g, a) ==
    [game |-> reset(g),
     app |-> [a EXCEPT !.scoreSubmitted = FALSE, !.percentile = None,
                       !.rank = None, !.formHidden = TRUE,
                       !.playAgainHidden = TRUE]]

\* lines 301-316: handleSubmit() up to its await, value being what the name
\* field holds; requested tells whether submitScore() is called
handleSubmitBegins(a, value) ==
    IF Trim(value) = <<>>
    THEN [app |-> a, requested |-> FALSE]
    ELSE [app |-> [a EXCEPT !.savedName = Some(Trim(value)),
                            !.btnDisabled = TRUE],
          requested |-> TRUE]

\* part_001 lines 62-85: the object that submitScore() returns once its fetch
\* has come to resp, the cache then being a
submitScoreResult(a, resp) ==
    IF Parsed(resp)
    THEN [percentile |-> resp.percentile, rank |-> resp.rank,
          leaderboard |-> resp.leaderboard, failed |-> FALSE]
    ELSE [percentile |-> None, rank |-> None,
          leaderboard |-> Some(OrEmpty(a.cachedLeaderboard)), failed |-> TRUE]

\* lines 316-331: handleSubmit() from its await on, submitScore() having
\* returned result (it never throws); a list, the empty one too, is truthy
handleSubmitResumes(a, result) ==
    [a EXCEPT !.percentile = result.percentile,
              !.rank = result.rank,
              !.leaderboard = IF result.leaderboard # None
                              THEN result.leaderboard[1] ELSE @,
              !.scoreSubmitted = TRUE,
              !.formHidden = TRUE,
              !.btnDisabled = FALSE]

\* what the name field holds when a submit event arrives
Typed == {<<>>, <<" ">>, <<" ", "a", " ">>}

\* src/worker/index.js lines 153-158, 79-97 and 44-49: the answers to POST
\* /api/score with the percentile and the rank they carry
FormResponses ==
    {x @@ [percentile |-> None, rank |-> None] :
        x \in {y \in SubmitResponses : ~Parsed(y)}}
      \cup {x @@ [percentile |-> Some(50), rank |-> k] :
              x \in {y \in SubmitResponses : Parsed(y)}, k \in {None, Some(1)}}

\* the app as loaded on the desktop canvas
FormLoaded ==
    [game |-> Constructed(Desktop[1], Desktop[2], DefaultStorage),
     app |-> FormConstructed, storage |-> DefaultStorage]

\* the shoulder height whose detection starts the run
firstPose == FromRatio(6, 10)

\* what the pose detector reports in a frame
FormPoses == {None, Some(FromInt(1))}

\* the frames without a pose after which the first obstacle is passed in the
\* next frame, and after which it is 56 frames from the avatar
FormPassFrames == 365

FormShortFrames == 275

\* the runs that end on the game-over screen: a frame with the shoulders at
\* firstPose starts the run, n frames without a pose follow, then the
\* shoulders are at the top, the avatar meeting an obstacle in frame k from
\* then (with a score of 1, and with none)
FormRuns == {<<FormPassFrames, 3>>, <<FormShortFrames, 56>>}

\* the world after the frame whose pose starts the run
Started == FormCoast(FormLoaded, Some(firstPose), 1)

\* the world of run c one frame before the impact
BeforeImpact(c) ==
    CHOOSE one \in {FormCoast(w, Some(FromInt(0)), c[2] - 1) :
                       w \in {FormCoast(Started, None, c[1])}} : TRUE

\* the first fetchLeaderboard() has returned rows
Fetched(w, rows) == [w EXCEPT !.app = fetchLeaderboardResumes(@, rows)]

\* the world of run c, n frames after the state BeforeImpact(c), the pose
\* being pose in each of them
AfterImpact(c, pose, n) ==
    CHOOSE one \in {FormCoast(w, pose, n) : w \in {Fetched(BeforeImpact(c), <<7>>)}} : TRUE

\* ms from the first frame to the state BeforeImpact(c) and n frames
FormElapsed(c, n) == 16 * (c[1] + c[2] + n)

\* the frames of the game-over screen after which the cooldown has one more
\* frame to run
CooldownFrames == {GAME_OVER_COOLDOWN_FRAMES - 1}

\* a run about to end, the first fetch of the leaderboard settled or still
\* in flight, or the game-over screen one frame before the play again
\* button shows, no pose having been detected on it or the shoulders having
\* been held where they were when the run started; submits counts the calls
\* of submitScore(), frames the frames, resizes the resize events
InitForm ==
    /\ ServiceInit({0})
    /\ heard = None
    /\ \E c \in FormRuns :
          \/ \E b \in {BeforeImpact(c)} :
             /\ game = b.game
             /\ storage = b.storage
             /\ \/ /\ app = Fetched(b, <<7>>).app
                   /\ api = [cachedLeaderboard |-> Some(<<7>>), lastFetch |-> LoadedAt]
                   /\ net = [now |-> LoadedAt + FormElapsed(c, 0), pending |-> {},
                             issued |-> 1, waits |-> 0, freshAt |-> Some(LoadedAt),
                             lastGood |-> Some(<<7>>), submits |-> 0, frames |-> 0, resizes |-> 0]
                \/ /\ app = b.app
                   /\ api = ApiConstructed
                   /\ net = [now |-> LoadedAt + FormElapsed(c, 0),
                             pending |-> {[id |-> 1, call |-> "getLeaderboard",
                                           now |-> LoadedAt, overtaken |-> FALSE]},
                             issued |-> 1, waits |-> 0, freshAt |-> None,
                             lastGood |-> None, submits |-> 0, frames |-> 0, resizes |-> 0]
             /\ last = [op |-> "new"]
          \/ \E n \in CooldownFrames, pose \in {None, Some(firstPose)} :
                \E w \in {AfterImpact(c, pose, n)} :
                    /\ game = w.game
                    /\ app = w.app
                    /\ storage = w.storage
                    /\ api = [cachedLeaderboard |-> Some(<<7>>), lastFetch |-> LoadedAt]
                    /\ net = [now |-> LoadedAt + FormElapsed(c, n), pending |-> {},
                              issued |-> 1, waits |-> 0, freshAt |-> Some(LoadedAt),
                              lastGood |-> Some(<<7>>), submits |-> 0, frames |-> 0, resizes |-> 0]
                    /\ last = [op |-> "frame", pose |-> pose,
                               appBefore |-> AfterImpact(c, pose, n - 1).app]

FormUnchanged == UNCHANGED heard /\ UNCHANGED serverVars

\* lines 182-196: one frame of gameLoop; fetchLeaderboard(), when called,
\* runs getLeaderboard() up to its return or its fetch
FormFrame ==
    /\ net.frames < MaxTicks
    /\ \E pose \in FormPoses :
       \E w \in {formUpdate([game |-> game, app |-> app, storage |-> storage],
                            pose, frameTime, midRandom)} :
       LET now == net.now + 16
           cached == w.fetch /\ servedFromCache(api, FALSE, now)
           clocked == [net EXCEPT !.now = now, !.frames = @ + 1]
       IN  /\ game' = w.game
           /\ storage' = w.storage
           /\ app' = IF cached
                     THEN fetchLeaderboardResumes(w.app, api.cachedLeaderboard[1])
                     ELSE w.app
           /\ IF w.fetch /\ ~cached
              THEN /\ net.issued < MaxFetches
                   /\ net' = [clocked EXCEPT
                                !.pending = @ \cup {[id |-> net.issued + 1,
                                                     call |-> "getLeaderboard",
                                                     now |-> now,
                                                     overtaken |-> FALSE]},
                                !.issued = @ + 1]
              ELSE net' = clocked
           /\ last' = [op |-> "frame", pose |-> pose, appBefore |-> app]
    /\ UNCHANGED api
    /\ FormUnchanged

\* lines 111-121 and part_001 lines 28-43: the fetch of a call of
\* getLeaderboard() made by fetchLeaderboard() settles
FetchLeaderboardSettles ==
    /\ \E q \in net.pending, resp \in Responses :
          /\ q.call = "getLeaderboard"
          /\ LET s == getLeaderboardSettled(api, q.now, resp)
             IN  /\ api' = s.api
                 /\ app' = fetchLeaderboardResumes(app, s.returned)
                 /\ net' = [net EXCEPT
                       !.pending = @ \ {q},
                       !.freshAt = IF ~Parsed(resp) THEN @
                                   ELSE IF @ = None THEN Some(q.now)
                                   ELSE Some(Max2(@[1], q.now)),
                       !.lastGood = IF Parsed(resp)
                                    THEN Some(OrEmpty(resp.leaderboard)) ELSE @]
                 /\ last' = [op |-> "fetchLeaderboardResumed", resp |-> resp,
                             appBefore |-> app]
    /\ UNCHANGED <<game, storage>>
    /\ FormUnchanged

\* lines 301-316 and part_001 lines 52-60: handleSubmit() runs on a submit
\* event and, unless the name is blank, calls submitScore(name, game.score)
HandleSubmit(event) ==
    /\ \E value \in Typed :
          LET b == handleSubmitBegins(app, value)
          IN  /\ app' = b.app
              /\ IF b.requested
                 THEN /\ net.issued < MaxFetches
                      /\ net' = [Issue("submitScore") EXCEPT !.submits = @ + 1]
                 ELSE net' = net
              /\ last' = [op |-> "handleSubmit", event |-> event,
                          requested |-> b.requested, appBefore |-> app,
                          inFlight |-> {q \in net.pending : q.call = "submitScore"}]
    /\ UNCHANGED <<game, storage, api>>
    /\ FormUnchanged

\* line 64: a click on the submit button, which is shown and not disabled
ClickSubmit ==
    /\ ~app.formHidden /\ ~app.btnDisabled
    /\ HandleSubmit("click")

\* lines 65-67: Enter is pressed in the name field of the form, which is shown
EnterInName ==
    /\ ~app.formHidden
    /\ HandleSubmit("keypress")

\* lines 316-331 and part_001 lines 62-85: the fetch of a call of
\* submitScore() settles and handleSubmit() resumes
HandleSubmitResumes ==
    /\ \E q \in net.pending, resp \in FormResponses :
          /\ q.call = "submitScore"
          /\ LET s == submitScoreSettled(api, net.now, resp)
                 result == submitScoreResult(api, resp)
             IN  /\ api' = s.api
                 /\ app' = handleSubmitResumes(app, result)
                 /\ net' = [net EXCEPT
                       !.pending = Overtaking(@, q, resp),
                       !.freshAt = IF Parsed(resp) THEN Some(net.now) ELSE @,
                       !.lastGood = IF Parsed(resp) THEN resp.leaderboard ELSE @]
                 /\ last' = [op |-> "handleSubmitResumed", resp |-> resp,
                             appBefore |-> app, failed |-> result.failed]
    /\ UNCHANGED <<game, storage>>
    /\ FormUnchanged

\* line 70 and lines 292-299: a click on the play again button, which is shown
HandlePlayAgain ==
    /\ ~app.playAgainHidden
    /\ game' = handlePlayAgain(game, app).game
    /\ app' = handlePlayAgain(game, app).app
    /\ last' = [op |-> "handlePlayAgain", appBefore |-> app]
    /\ UNCHANGED <<storage, api, net>>
    /\ FormUnchanged

\* lines 61 and 168-180: the window is resized, c being the size of the
\* element that holds the canvas; renderer.resize() changes nothing the model
\* keeps
FormResize ==
    /\ net.resizes < MaxCalls
    /\ \E c \in Canvases : game' = resize(game, c[1], c[2])
    /\ net' = [net EXCEPT !.resizes = @ + 1]
    /\ last' = [op |-> "handleResize", appBefore |-> app]
    /\ UNCHANGED <<app, storage, api>>
    /\ FormUnchanged

NextForm ==
    \/ FormFrame
    \/ FormResize
    \/ FetchLeaderboardSettles
    \/ ClickSubmit
    \/ EnterInName
    \/ HandleSubmitResumes
    \/ HandlePlayAgain

SpecForm == InitForm /\ [][NextForm]_vars

\* ================================================================ claims
Done(p) == h[p].pc = "done"

Answered(p) == Done(p) /\ h[p].status = 200

\* no request is in progress and the tables are as the last accepted
\* submission (or, before any request, the initial state) left them
Settled == Quiescent /\ (requests = 0 \/ \E p \in Handlers : Answered(p))

BoardScores(lb) == {lb[i].score : i \in 1..Len(lb)}

RowsWithScore(lb, v) == Cardinality({i \in 1..Len(lb) : lb[i].score = v})

\* how many of the accepted submissions had a score in S
SubmittedIn(S) == SumCounts(submitted, DOMAIN submitted \cap S)

\* how many of the accepted submissions had min(score, 200) = k
SubmittedAtKey(k) ==
    IF k < MAX_TRACKED_SCORE
    THEN (IF k \in DOMAIN submitted THEN submitted[k] ELSE 0)
    ELSE IF k = MAX_TRACKED_SCORE
         THEN SubmittedIn({v \in DOMAIN submitted : v >= MAX_TRACKED_SCORE})
         ELSE 0

CountAt(k) == IF k \in DOMAIN histogram THEN histogram[k] ELSE 0

SubmittedTotal == SumCounts(submitted, DOMAIN submitted)

\* C1: after any sequence of n accepted submissions served one at a time the
\* leaderboard holds min(n, 100) rows and their scores are, as a multiset,
\* the min(n, 100) highest scores submitted.
C1_TopScoresKept ==
    Settled =>
        LET n == SubmittedTotal
            kept == Min2(n, MAX_LEADERBOARD)
        IN  /\ Len(leaderboard) = kept
            /\ BoardScores(leaderboard) \subseteq DOMAIN submitted
            /\ \A v \in DOMAIN submitted :
                   RowsWithScore(leaderboard, v) =
                       Max2(0, Min2(submitted[v],
                                    kept - SubmittedIn({u \in DOMAIN submitted : u > v})))

\* the 101st submission, higher than all before it, has displaced the lowest
C1_Witness ==
    /\ Quiescent
    /\ SubmittedTotal = MAX_LEADERBOARD + 1
    /\ Len(leaderboard) = MAX_LEADERBOARD
    /\ \E p \in Handlers :
          /\ Answered(p)
          /\ h[p].madeLeaderboard
          /\ leaderboard[1].id = h[p].rowId

\* C2: once all concurrently executing submit handlers have finished the
\* leaderboard holds at most 100 rows.
C2_AtMostHundredRows == Quiescent => Len(leaderboard) <= MAX_LEADERBOARD

\* C3: under every interleaving each accepted submission adds exactly 1 to
\* the bucket min(score, 200): at every moment every bucket counts the
\* accepted submissions of its key whose upsert has run, so that the counts
\* add up to the number of accepted submissions once all have finished.
C3_OneIncrementEach ==
    LET waiting(k) == Cardinality({p \in Handlers :
                          h[p].pc = "upsert"
                          /\ Min2(h[p].score.num, MAX_TRACKED_SCORE) = k})
        keys == DOMAIN histogram \cup {Min2(v, MAX_TRACKED_SCORE) : v \in DOMAIN submitted}
    IN  /\ \A k \in keys : CountAt(k) = SubmittedAtKey(k) - waiting(k)
        /\ Quiescent => HistTotal(histogram) = SubmittedTotal

\* two overlapping submissions have both incremented the same bucket
C3_Witness ==
    /\ Quiescent
    /\ \E p, q \in Handlers :
          /\ p # q
          /\ Answered(p) /\ Answered(q)
          /\ ~h[q].alone
          /\ h[p].score.num = h[q].score.num
          /\ h[p].score.num > MAX_TRACKED_SCORE
          /\ histogram[MAX_TRACKED_SCORE] = 2

\* C4: the percentile returned for the very first submission to an empty
\* service is exactly 50, for every valid score.
C4_FirstPercentileFifty ==
    \A p \in Handlers :
        (Answered(p) /\ h[p].alone /\ DOMAIN h[p].preHist = {} /\ Len(h[p].preBoard) = 0)
            => h[p].percentile = Some(50)

\* round(100 * below / total), halves rounded up
RoundPercent(below, total) == (200 * below + total) \div (2 * total)

\* C5: every accepted submission is answered with the percentile
\* round(100 * below / total), below being the counts of the buckets strictly
\* under min(score, 200) and total all counts, after its own increment.
C5_PercentileOfClampedScore ==
    \A p \in Handlers :
        (Answered(p) /\ h[p].alone) =>
            LET c == Min2(h[p].score.num, MAX_TRACKED_SCORE)
                below == SumCounts(histogram, {k \in DOMAIN histogram : k < c})
            IN  h[p].percentile = Some(RoundPercent(below, HistTotal(histogram)))

\* C6: the histogram has rows only for keys in 0..200 (at most 201 rows) and,
\* between submissions, the count of key k is the number of accepted
\* submissions with min(score, 200) = k, admitted to the leaderboard or not.
C6_HistogramDomainAndCounts ==
    /\ DOMAIN histogram \subseteq 0..MAX_TRACKED_SCORE
    /\ Cardinality(DOMAIN histogram) <= MAX_TRACKED_SCORE + 1
    /\ Settled =>
          \A k \in 0..MAX_TRACKED_SCORE : CountAt(k) = SubmittedAtKey(k)

\* a score above 200 that was not admitted is counted under key 200
C6_Witness ==
    /\ Quiescent
    /\ MAX_TRACKED_SCORE \in DOMAIN histogram
    /\ \E v \in DOMAIN submitted : v > MAX_TRACKED_SCORE
    /\ \E p \in Handlers : Answered(p) /\ ~h[p].madeLeaderboard

RowIds(lb) == {lb[i].id : i \in 1..Len(lb)}

\* the submitted score beats some row of the leaderboard lb
BeatsLowest(lb, score) == \E i \in 1..Len(lb) : score > lb[i].score

\* C7: a submit executed alone reports madeLeaderboard and inserts a row if
\* and only if the leaderboard had fewer than 100 rows or the score is
\* strictly greater than its lowest score; otherwise (a score equal to the
\* lowest of a full leaderboard included) the leaderboard is left unchanged.
C7_AdmissionRule ==
    \A p \in Handlers :
        (Answered(p) /\ h[p].alone) =>
            LET pre == h[p].preBoard
                admitted == Len(pre) < MAX_LEADERBOARD \/ BeatsLowest(pre, h[p].score.num)
            IN  /\ h[p].madeLeaderboard = admitted
                /\ admitted => /\ h[p].rowId \in RowIds(leaderboard) \ RowIds(pre)
                               /\ Cardinality(RowIds(leaderboard) \ RowIds(pre)) = 1
                /\ ~admitted => leaderboard = pre

\* a score equal to the lowest score of a full leaderboard was turned away
C7_Witness ==
    \E p \in Handlers :
        /\ Answered(p) /\ h[p].alone
        /\ Len(h[p].preBoard) = MAX_LEADERBOARD
        /\ h[p].score.num = h[p].preBoard[MAX_LEADERBOARD].score
        /\ ~h[p].madeLeaderboard
        /\ leaderboard = h[p].preBoard

\* C8: for a submit executed alone the rank is non-null exactly when
\* madeLeaderboard is true, and is then 1 plus the number of leaderboard rows
\* (after insertion and eviction) of strictly greater score.
C8_RankOfAdmitted ==
    \A p \in Handlers :
        (Answered(p) /\ h[p].alone) =>
            /\ (h[p].rank # None) = h[p].madeLeaderboard
            /\ h[p].madeLeaderboard =>
                   h[p].rank = Some(1 + Cardinality({i \in 1..Len(leaderboard) :
                                  leaderboard[i].score > h[p].score.num}))

\* an admitted score that evicted the lowest row and shares its score with
\* an older row: 98 rows are strictly above it
C8_Witness ==
    \E p \in Handlers :
        /\ Answered(p) /\ h[p].alone
        /\ h[p].madeLeaderboard
        /\ Len(h[p].preBoard) = MAX_LEADERBOARD
        /\ h[p].rank = Some(MAX_LEADERBOARD - 1)

\* the name is missing, not a string, or empty after trimming
NameUnusable(name) ==
    \/ name.t # "string"
    \/ \A i \in 1..Len(name.s) : name.s[i] \in Whitespace

\* the score is not a non-negative integer
ScoreUnusable(score) ==
    \/ score.t # "number"
    \/ ~\E n \in 0..score.num : score.num = n * score.den

\* stored is raw without its leading and trailing whitespace, cut to 20 characters
TrimmedAndCut(raw, stored) ==
    \E a, b \in 1..Len(raw) :
        /\ a <= b
        /\ raw[a] \notin Whitespace /\ raw[b] \notin Whitespace
        /\ \A i \in 1..Len(raw) : (i < a \/ i > b) => raw[i] \in Whitespace
        /\ stored = [i \in 1..Min2(b - a + 1, NAME_LIMIT) |-> raw[a + i - 1]]

\* C9: a submit whose name is missing, not a string or empty after trimming,
\* or whose score is not a non-negative integer, is answered 400 and leaves
\* histogram and leaderboard unchanged; an accepted name is stored trimmed
\* and cut to at most 20 characters.
C9_ValidationRejects ==
    \A p \in Handlers :
        (Done(p) /\ h[p].alone) =>
            IF NameUnusable(h[p].name) \/ ScoreUnusable(h[p].score)
            THEN /\ h[p].status = 400
                 /\ histogram = h[p].preHist
                 /\ leaderboard = h[p].preBoard
            ELSE /\ h[p].status = 200
                 /\ h[p].madeLeaderboard =>
                       \E i \in 1..Len(leaderboard) :
                           /\ leaderboard[i].id = h[p].rowId
                           /\ Len(leaderboard[i].name) <= NAME_LIMIT
                           /\ TrimmedAndCut(h[p].name.s, leaderboard[i].name)

\* a name of 22 characters after trimming is on the leaderboard with 20, and
\* a name of whitespace only has just been rejected
C9_Witness ==
    /\ \E i \in 1..Len(leaderboard) :
          leaderboard[i].name = Rep("x", 19) \o <<" ">>
    /\ \E p \in Handlers :
          /\ Done(p) /\ h[p].status = 400
          /\ h[p].name = Str(<<" ", "\t">>)
          /\ histogram = h[p].preHist /\ leaderboard = h[p].preBoard

\* the leaderboard holds what the submission of p calls for
LeaderboardApplied(p) ==
    LET pre == h[p].preBoard
    IN  IF Len(pre) < MAX_LEADERBOARD \/ BeatsLowest(pre, h[p].score.num)
        THEN /\ h[p].rowId \in RowIds(leaderboard)
             /\ Len(leaderboard) = Min2(Len(pre) + 1, MAX_LEADERBOARD)
        ELSE leaderboard = pre

\* C10: a submit answered 500 because one of its statements failed is not
\* partially applied: afterwards either both the histogram increment and the
\* leaderboard change it calls for are present, or neither is.
C10_FailedSubmitNotPartial ==
    \A p \in Handlers :
        (Done(p) /\ h[p].alone /\ h[p].status = 500) =>
            \/ histogram = h[p].preHist /\ leaderboard = h[p].preBoard
            \/ /\ histogram = HistogramUpsert(h[p].preHist,
                                  Min2(h[p].score.num, MAX_TRACKED_SCORE))
               /\ LeaderboardApplied(p)


\* C11: a stats request answers totalGames = the number of accepted
\* submissions counted in the histogram (0 while it is empty) and topScore =
\* the highest score on the leaderboard (0 while it is empty), and leaves
\* both tables as they were.
C11_StatsTotals ==
    \A p \in Handlers :
        (Done(p) /\ h[p].route = "stats") =>
            /\ h[p].status = 200
            /\ h[p].totalGames = Some(SubmittedTotal)
            /\ IF Len(leaderboard) = 0
               THEN h[p].topScore = Some(0)
               ELSE /\ h[p].topScore[1] \in BoardScores(leaderboard)
                    /\ \A v \in BoardScores(leaderboard) : v <= h[p].topScore[1]
            /\ leaderboard = h[p].preBoard
            /\ histogram = h[p].preHist

\* a stats request answered right after score 150 was submitted to the
\* empty service
C11_Witness ==
    \E p \in Handlers :
        /\ Done(p) /\ h[p].route = "stats"
        /\ h[p].prev # None
        /\ h[p].prev[1].route = "score" /\ h[p].prev[1].status = 200
        /\ h[p].prev[1].score = Num(150, 1)
        /\ Len(h[p].prev[1].preBoard) = 0
        /\ h[p].totalGames = Some(1)
        /\ h[p].topScore = Some(150)

\* the request before p's was an accepted submission of the same body
Repeated(p) ==
    /\ Answered(p) /\ h[p].route = "score" /\ h[p].alone
    /\ h[p].prev # None
    /\ h[p].prev[1].route = "score" /\ h[p].prev[1].status = 200
    /\ h[p].prev[1].alone
    /\ h[p].prev[1].name = h[p].name
    /\ h[p].prev[1].score = h[p].score

RowsOf(lb, name, v) ==
    Cardinality({i \in 1..Len(lb) : lb[i].name = name /\ lb[i].score = v})

CountIn(hist, k) == IF k \in DOMAIN hist THEN hist[k] ELSE 0

\* how many of the two submissions were admitted to the leaderboard
AdmittedOfTwo(p) ==
    (IF h[p].madeLeaderboard THEN 1 ELSE 0)
        + (IF h[p].prev[1].madeLeaderboard THEN 1 ELSE 0)

\* C12 (as stated): the same (name, score) submitted twice in succession
\* leaves two more leaderboard rows with that name and score and raises the
\* count of bucket min(score, 200) by 2.
C12_TwoRowsTwoCounts ==
    \A p \in Handlers :
        Repeated(p) =>
            LET v == h[p].score.num
                before == h[p].prev[1]
            IN  /\ RowsOf(leaderboard, h[p].cleanName, v)
                     = RowsOf(before.preBoard, h[p].cleanName, v) + 2
                /\ CountIn(histogram, Min2(v, MAX_TRACKED_SCORE))
                     = CountIn(before.preHist, Min2(v, MAX_TRACKED_SCORE)) + 2

\* C12 (amended): the same (name, score) submitted twice in succession raises
\* the count of bucket min(score, 200) by 2 and leaves one more leaderboard
\* row with that name and score per admitted submission: two whenever the
\* leaderboard held at most 98 rows before the first.
C12_TwoCountsRowPerAdmission ==
    \A p \in Handlers :
        Repeated(p) =>
            LET v == h[p].score.num
                before == h[p].prev[1]
            IN  /\ RowsOf(leaderboard, h[p].cleanName, v)
                     = RowsOf(before.preBoard, h[p].cleanName, v) + AdmittedOfTwo(p)
                /\ Len(before.preBoard) <= MAX_LEADERBOARD - 2 => AdmittedOfTwo(p) = 2
                /\ CountIn(histogram, Min2(v, MAX_TRACKED_SCORE))
                     = CountIn(before.preHist, Min2(v, MAX_TRACKED_SCORE)) + 2

\* a score above the last histogram key submitted twice to a leaderboard with
\* room for both
C12_Witness ==
    \E p \in Handlers :
        /\ Repeated(p)
        /\ h[p].score.num > MAX_TRACKED_SCORE
        /\ AdmittedOfTwo(p) = 2
        /\ RowsOf(leaderboard, h[p].cleanName, h[p].score.num) = 2

\* C13: a POST /api/score whose body is not an object with a usable name and
\* score is answered 400 and never 500, and a request to an unknown route is
\* answered 404.
C13_MalformedIs400 ==
    \A p \in Handlers :
        Done(p) =>
            /\ (h[p].route = "score" /\ h[p].body # "object") => h[p].status = 400
            /\ (h[p].route = "score" /\ h[p].body = "object"
                    /\ (NameUnusable(h[p].name) \/ ScoreUnusable(h[p].score)))
                  => h[p].status = 400
            /\ h[p].route = "other" => h[p].status = 404


\* ------------------------------------------------------ engine claims
\* the fields a start or reset assigns
RunFields(g) ==
    [state |-> g.state, score |-> g.score, pipes |-> g.pipes,
     lastPipeSpawn |-> g.lastPipeSpawn, pipeSpeed |-> g.pipeSpeed]

\* C15: start() called while the state is PLAYING, and reset() called while
\* it is PLAYING or WAITING, leave state, score, obstacle list, spawn timer
\* and speed as they were.
C15_IntentInOtherStateIsNoOp ==
    /\ (last.op = "start" /\ last.before.state = PLAYING)
          => RunFields(game) = RunFields(last.before)
    /\ (last.op = "reset" /\ last.before.state \in {PLAYING, WAITING})
          => RunFields(game) = RunFields(last.before)

PipeIds(g) == {g.pipes[i].id : i \in 1..Len(g.pipes)}

PipeOf(g, id) == g.pipes[CHOOSE i \in 1..Len(g.pipes) : g.pipes[i].id = id]

\* the obstacles not yet passed before the last operation that are passed
\* after it, or were passed and removed by it
NewlyPassed ==
    {id \in PipeIds(last.before) :
        /\ ~PipeOf(last.before, id).passed
        /\ id \in PipeIds(game) => PipeOf(game, id).passed}

\* C16: within a run the score never decreases; a tick raises it by one for
\* each obstacle whose passed flag turns from false to true in that tick and
\* by nothing else, and a passed obstacle stays passed, so that none is
\* counted twice.  No operation other than start and reset lowers it.
C16_OnePointPerPass ==
    /\ last.op = "update" =>
          /\ game.score = last.before.score + Cardinality(NewlyPassed)
          /\ last.before.state # PLAYING => game.score = last.before.score
          /\ \A id \in PipeIds(last.before) \cap PipeIds(game) :
                PipeOf(last.before, id).passed => PipeOf(game, id).passed
    /\ last.op \in {"resize", "setBirdTargetFromPose"} =>
          game.score = last.before.score

\* a tick in which the score went up by one while a passed obstacle was
\* still on the field
C16_Witness ==
    /\ last.op = "update"
    /\ game.score = last.before.score + 1
    /\ Cardinality(NewlyPassed) = 1
    /\ \E id \in PipeIds(game) : PipeOf(game, id).passed

\* C17: the personal best never decreases; it changes only in the tick that
\* takes PLAYING to GAME_OVER, where it becomes max(old personal best,
\* score) (a personal best that is not a number stays as it is).
C17_HighScoreOnlyGrowsAtGameOver ==
    last.op # "new" =>
        LET old == last.before.highScore
            ended == /\ last.op = "update"
                     /\ last.before.state = PLAYING
                     /\ game.state = GAME_OVER
        IN  /\ IsNaN(old) => game.highScore = old
            /\ ~IsNaN(old) =>
                  /\ ~IsNaN(game.highScore)
                  /\ game.highScore.num >= old.num
                  /\ game.highScore.den = old.den
            /\ game.highScore # old => ended
            /\ (ended /\ ~IsNaN(old)) =>
                  game.highScore = Num(Max2(old.num, game.score), 1)

\* a run that ended with a score above the personal best
C17_Witness ==
    /\ last.op = "update"
    /\ last.before.state = PLAYING /\ game.state = GAME_OVER
    /\ game.score > 0
    /\ game.highScore = Num(game.score, 1)
    /\ last.before.highScore # game.highScore

\* the stored text is a decimal numeral
IsNumeral(s) == Len(s) > 0 /\ \A i \in 1..Len(s) : IsDigit(s[i])

NothingValidToRead(st) ==
    st.readThrows \/ st.item = None \/ ~IsNumeral(st.item[1])

\* C18: whatever the storage holds or does, the engine's highScore is a
\* non-negative integer, and a newly constructed engine has highScore 0
\* whenever no valid value can be read.
C18_LoadedHighScoreIsCount ==
    /\ ~IsNaN(game.highScore)
    /\ game.highScore.den = 1
    /\ game.highScore.num >= 0
    /\ (last.op = "new" /\ NothingValidToRead(storage))
          => game.highScore = Num(0, 1)

\* C19: in a PLAYING tick every obstacle present at its start moves left by
\* basePipeSpeed + score * difficultyIncreaseRate, score taken at the start
\* of the tick, the same amount for all of them.
C19_SpeedOfScore ==
    (last.op = "update" /\ last.before.state = PLAYING) =>
        \A id \in PipeIds(last.before) \cap PipeIds(game) :
            PipeOf(game, id).x
                = DSub(PipeOf(last.before, id).x,
                       DAdd(FromInt(basePipeSpeed), SpeedGain(last.before.score)))

\* C20: an obstacle just spawned has at least minPipeHeight above its gap
\* and at least minPipeHeight between its gap and the ground.
C20_StubsAtLeastMinimum ==
    (last.op = "update" /\ game.spawned > last.before.spawned) =>
        LET pipe == PipeOf(game, game.spawned)
        IN  /\ DAtLeast(DSub(pipe.gapTop, FromInt(ceilingHeight)),
                        FromInt(minPipeHeight))
            /\ DAtLeast(DSub(groundLine(game), pipe.gapBottom),
                        FromInt(minPipeHeight))


\* -------------------------------------------------------- app loop claims
\* the changes of run state the frame made, in order: by game.update, then
\* by handleStateTransitions
LegalChange(from, to, intent, hit) ==
    \/ from = to
    \/ from = WAITING /\ to = PLAYING /\ intent
    \/ from = PLAYING /\ to = GAME_OVER /\ hit
    \/ from = GAME_OVER /\ to \in {WAITING, PLAYING} /\ intent

\* C14: the run state starts at WAITING, and every change of it made by a
\* frame of the app loop is WAITING->PLAYING with a movement intent pending,
\* PLAYING->GAME_OVER with the bird in collision, or GAME_OVER->WAITING or
\* GAME_OVER->PLAYING with a movement intent pending; a window resize
\* changes no run state.
C14_LegalStateChanges ==
    /\ game.state \in {WAITING, PLAYING, GAME_OVER}
    /\ last.op = "new" => game.state = WAITING
    /\ last.op = "resize" => game.state = last.before.state
    /\ last.op = "frame" =>
          /\ LegalChange(last.before.state, last.mid.state, FALSE,
                         checkCollisions(last.mid))
          /\ LegalChange(last.mid.state, game.state, last.intent, FALSE)

\* a frame in which the run ended, and a frame in which a finished run was
\* reset: here the same frame, the movement having been detected during play
C14_Witness ==
    /\ last.op = "frame"
    /\ last.before.state = PLAYING
    /\ last.mid.state = GAME_OVER
    /\ game.state = WAITING


\* C21: an obstacle just spawned has a gap of max(120, basePipeGap - 2 *
\* score) pixels, score as it stands when the obstacle is spawned: 180 at
\* score 0 and 120 from score 30 on when the base gap is 180.
C21_GapOfScore ==
    (last.op \in {"update", "frame"} /\ game.spawned > last.before.spawned) =>
        LET pipe == PipeOf(game, game.spawned)
            wide == DSub(game.basePipeGap, DMul(FromInt(2), FromInt(game.score)))
        IN  /\ pipe.gapBottom
                  = DAdd(pipe.gapTop, IF DMore(wide, FromInt(120)) THEN wide
                                      ELSE FromInt(120))
            /\ (game.basePipeGap = FromInt(180) /\ game.score = 0)
                  => pipe.gapBottom = DAdd(pipe.gapTop, FromInt(180))
            /\ (game.basePipeGap = FromInt(180) /\ game.score >= 30)
                  => pipe.gapBottom = DAdd(pipe.gapTop, FromInt(120))

\* an obstacle spawned at score 30 with base gap 180
C21_Witness ==
    /\ last.op = "update"
    /\ game.spawned > last.before.spawned
    /\ game.score = 30
    /\ game.basePipeGap = FromInt(180)
    /\ PipeOf(game, game.spawned).gapBottom
          = DAdd(PipeOf(game, game.spawned).gapTop, FromInt(120))


\* the obstacles game.update tested for collision: those on the field after
\* the movement, not the one spawned afterwards in the same tick
TestedPipes ==
    {i \in 1..Len(game.pipes) : game.pipes[i].id <= last.before.spawned}

HitsBoundary ==
    \/ DLess(DSub(game.bird.y, FromInt(radius)), FromInt(ceilingHeight))
    \/ DMore(DAdd(game.bird.y, FromInt(radius)), groundLine(game))

HitsPipe(i) ==
    LET pipe == game.pipes[i]
    IN  /\ DMore(DAdd(game.bird.x, FromInt(radius)), pipe.x)
        /\ DLess(DSub(game.bird.x, FromInt(radius)),
                 DAdd(pipe.x, FromInt(pipeWidth)))
        /\ ~(DAtMost(pipe.gapTop, DSub(game.bird.y, FromInt(radius)))
                /\ DAtMost(DAdd(game.bird.y, FromInt(radius)), pipe.gapBottom))

\* C22: a PLAYING tick ends in GAME_OVER exactly when, after its smoothing
\* step and obstacle movement, the avatar circle crosses the ceiling or the
\* floor, or some obstacle overlaps the avatar in x while the avatar's
\* y-extent is not within that obstacle's gap.
C22_GameOverIffCollision ==
    (last.op = "update" /\ last.before.state = PLAYING) =>
        (game.state = GAME_OVER <=> (HitsBoundary \/ \E i \in TestedPipes : HitsPipe(i)))

\* a tick ended by one obstacle of two, the avatar clear of ceiling and floor
C22_Witness ==
    /\ last.op = "update" /\ last.before.state = PLAYING
    /\ game.state = GAME_OVER
    /\ ~HitsBoundary
    /\ Cardinality(TestedPipes) >= 2
    /\ Cardinality({i \in TestedPipes : HitsPipe(i)}) = 1


\* C23: setBirdTargetFromPose sets targetY = ceiling + 2r + normalizedY *
\* (playableHeight - 4r) for the normalizedY it is given, on whatever field
\* the engine holds, and a circle of radius r centred there overlaps neither
\* the ceiling nor the floor; normalizedY = 0 gives 2r when the ceiling is 0.
C23_TargetClearOfBoundaries ==
    last.op = "setBirdTargetFromPose" =>
        /\ \E n \in Poses :
              /\ game.bird.targetY
                    = DAdd(DAdd(FromInt(ceilingHeight), FromInt(2 * radius)),
                           DMul(n, DSub(playableHeight(game), FromInt(4 * radius))))
              /\ (IsZero(n) /\ ceilingHeight = 0)
                    => game.bird.targetY = FromInt(2 * radius)
        /\ DAtLeast(DSub(game.bird.targetY, FromInt(radius)), FromInt(ceilingHeight))
        /\ DAtMost(DAdd(game.bird.targetY, FromInt(radius)), groundLine(game))


\* the smoothing step of the last frame: from y0 towards target, arriving at y1
Smoothed ==
    [y0 |-> last.before.bird.y, target |-> last.mid.bird.targetY,
     y1 |-> last.mid.bird.y]

StrictlyBetween(a, x, b) ==
    (DLess(a, x) /\ DLess(x, b)) \/ (DLess(b, x) /\ DLess(x, a))

\* 0.2 px: from this distance on the rounded step is not 0 on a field of
\* fewer than 2^40 pixels
SmallestMovingGap == FromRatio(1, 5)

\* C24 as stated: on every tick, in every state, the avatar y after the
\* smoothing step lies strictly between its pre-update y and targetY when
\* they differ, and equals targetY when they are equal.
C24_StrictlyBetween ==
    last.op = "frame" =>
        IF Smoothed.y0 = Smoothed.target THEN Smoothed.y1 = Smoothed.target
        ELSE StrictlyBetween(Smoothed.y0, Smoothed.y1, Smoothed.target)

\* C24 as amended: the step never overshoots or reaches targetY from
\* elsewhere and never moves away from it; y stays where it is when it is at
\* targetY or closer to it than the arithmetic resolves, and lies strictly
\* between its old value and targetY when the two are 0.2 px or more apart.
C24_NeverOvershoots ==
    last.op = "frame" =>
        LET d == DSub(Smoothed.target, Smoothed.y0)
        IN  /\ IsZero(d) => Smoothed.y1 = Smoothed.target
            /\ ~IsZero(d) => \/ Smoothed.y1 = Smoothed.y0
                             \/ StrictlyBetween(Smoothed.y0, Smoothed.y1, Smoothed.target)
            /\ DAtLeast(DAbs(d), SmallestMovingGap) =>
                   StrictlyBetween(Smoothed.y0, Smoothed.y1, Smoothed.target)

\* a frame, not PLAYING, whose pose set a new target and moved the avatar
\* part of the way
C24_Witness ==
    /\ last.op = "frame"
    /\ last.before.state # PLAYING
    /\ last.before.bird.targetY # Smoothed.target
    /\ DAtLeast(DSub(Smoothed.y0, Smoothed.target), SmallestMovingGap)
    /\ StrictlyBetween(Smoothed.y0, Smoothed.y1, Smoothed.target)


\* the detector tick of the last frame emitted an intent
EmittedNow == last.op = "frame" /\ last.pose # None /\ last.answered.quiet = Some(0)

\* C25: after the movement detector emits an intent, each of the next 30
\* detector ticks emits none whatever the signal does: when an intent is
\* emitted, the detector ticks since the intent before it, none of which
\* emitted, number at least 30.
C25_CooldownBetweenIntents ==
    EmittedNow =>
        \/ last.heardBefore.quiet = None
        \/ last.heardBefore.quiet[1] >= cooldownFrames

\* an intent emitted on the very first tick after a cooldown of 30
C25_Witness ==
    /\ EmittedNow
    /\ last.heardBefore.quiet = Some(cooldownFrames)
    /\ last.ticks >= 3

\* C28: an intent emitted while the run is PLAYING causes no transition then
\* or later, and one emitted in GAME_OVER does not later start a run: every
\* transition handleStateTransitions makes, out of WAITING or GAME_OVER,
\* answers an intent that was emitted while the engine was in that state.
C28_IntentOnlyWhereEmitted ==
    (last.op = "frame" /\ game.state # last.mid.state) =>
        /\ last.mid.state \in {WAITING, GAME_OVER}
        /\ last.mid.state \in last.answered.pending

\* C29 as stated: after every detector tick, cooldown tick or not, intent or
\* not, lastShoulderY equals the signal value passed to that tick.
C29_LastSignalIsCurrent ==
    (last.op = "frame" /\ last.pose # None) => app.lastShoulderY = last.pose[1]

\* C29 as amended: after every detector tick that is not a cooldown tick,
\* whether it emitted an intent or not, lastShoulderY equals the signal value
\* passed to that tick; a cooldown tick leaves lastShoulderY as it was.
C29_LastSignalOutsideCooldown ==
    (last.op = "frame" /\ last.pose # None) =>
        IF last.appBefore.movementCooldown > 0
        THEN app.lastShoulderY = last.appBefore.lastShoulderY
        ELSE app.lastShoulderY = last.pose[1]

\* a tick outside the cooldown that emitted an intent and took the new value
C29_Witness ==
    /\ EmittedNow
    /\ last.appBefore.movementCooldown = 0
    /\ last.appBefore.lastShoulderY # last.pose[1]
    /\ app.lastShoulderY = last.pose[1]
    /\ last.ticks >= 1


\* getLeaderboard was called, without or with forceRefresh, at net.now
CalledGet == last.op = "getLeaderboard"

\* the call is less than 30 s after the last fetch or submit that succeeded
WithinTimeout == net.freshAt # None /\ net.now - net.freshAt[1] < cacheTimeout

\* C26: getLeaderboard() called without forceRefresh less than 30 s after the
\* last successful fetch or successful submit returns the cached list and
\* issues no request; a call at or beyond 30 s, or with forceRefresh, issues
\* a request.
C26_CachedWithinTimeout ==
    CalledGet =>
        /\ (~last.forceRefresh /\ WithinTimeout) =>
              /\ ~last.requested
              /\ last.returned = net.lastGood
        /\ (last.forceRefresh \/ (net.freshAt # None /\ ~WithinTimeout)) =>
              last.requested

\* the fetch of the last step failed
FetchFailed == last.op = "getLeaderboardSettled" /\ ~Parsed(last.resp)

\* C27: when the fetch fails getLeaderboard() does not throw: it returns the
\* last successfully cached list, or an empty list if nothing was ever
\* cached, and leaves the cached list and lastFetch unchanged.
C27_FailureServesCache ==
    FetchFailed =>
        /\ ~last.threw
        /\ last.returned = OrEmpty(last.goodBefore)
        /\ api = last.apiBefore

\* a fetch fails, by a non-OK status, after a list of one row was cached
\* more than 30 s before
C27_Witness ==
    /\ FetchFailed
    /\ last.resp.arrived /\ ~last.resp.ok
    /\ last.returned = <<7>>
    /\ net.now - api.lastFetch >= cacheTimeout


\* the rows, as id and score, of a table
IdScores(lb) == {[id |-> lb[i].id, score |-> lb[i].score] : i \in 1..Len(lb)}

\* the rows that handler p found or inserted and that are no longer there
Evicted(p) ==
    (IdScores(h[p].preBoard) \cup {[id |-> h[p].rowId, score |-> h[p].score.num]})
        \ IdScores(leaderboard)

\* C30: when an admitted submission raises the leaderboard above 100 rows,
\* exactly one row is removed, and it is a row with the lowest score; among
\* rows tied at that lowest score the one submitted latest is removed, so
\* that no row left with that score was submitted after the removed one.
C30_LatestOfLowestEvicted ==
    \A p \in Handlers :
        (Quiescent /\ Answered(p) /\ h[p].alone /\ h[p].madeLeaderboard
            /\ Len(h[p].preBoard) >= MAX_LEADERBOARD) =>
            /\ Cardinality(Evicted(p)) = 1
            /\ \A r \in Evicted(p) :
                  /\ \A q \in IdScores(leaderboard) : q.score >= r.score
                  /\ \A q \in IdScores(leaderboard) :
                        q.score = r.score => q.id < r.id

\* a submission served alone on a full leaderboard evicted the later of two
\* rows of the lowest score that carried the same created_at, and the
\* earlier one is still there
C30_Witness ==
    \E p \in Handlers :
        /\ Quiescent /\ Answered(p) /\ h[p].alone /\ h[p].madeLeaderboard
        /\ Len(h[p].preBoard) >= MAX_LEADERBOARD
        /\ \E i, j \in 1..Len(h[p].preBoard) :
              /\ SameKey(h[p].preBoard[i], h[p].preBoard[j])
              /\ h[p].preBoard[i].id < h[p].preBoard[j].id
              /\ h[p].preBoard[j].id \in {r.id : r \in Evicted(p)}
              /\ h[p].preBoard[i].id \in {q.id : q \in IdScores(leaderboard)}


\* C31: a tick of update() that starts in a state other than PLAYING changes
\* only the avatar's y: state, score, highScore, the obstacles with their x
\* and passed flags, the spawn timer and pipeSpeed stay as they were, also
\* when the avatar overlaps a boundary or an obstacle (no collision check).
C31_IdleTickMovesOnlyAvatar ==
    (last.op = "update" /\ last.before.state # PLAYING) =>
        game = [last.before EXCEPT !.bird.y = game.bird.y]

\* a tick in GAME_OVER, obstacles on the field and the avatar overlapping
\* something, in which the avatar moved
C31_Witness ==
    /\ last.op = "update"
    /\ last.before.state = GAME_OVER
    /\ Len(last.before.pipes) > 0
    /\ checkCollisions(game)
    /\ game.bird.y # last.before.bird.y


\* a tick of update() that began in GAME_OVER
OverTick == last.op = "update" /\ last.before.state = GAME_OVER

\* C32 as stated: after a collision has moved the run to GAME_OVER, on every
\* later tick in GAME_OVER the avatar's y keeps the value it had.
C32_AvatarFrozenWhenOver == OverTick => game.bird.y = last.before.bird.y

\* C32 as amended: after a collision has moved the run to GAME_OVER the
\* obstacles are frozen but the avatar is not: on every later tick in
\* GAME_OVER its y takes the smoothing step towards targetY, staying where it
\* is only at targetY or closer to it than the arithmetic resolves, and lying
\* strictly between its old value and targetY when they are 0.2 px or more
\* apart.
C32_AvatarEasesWhenOver ==
    OverTick =>
        LET y0 == last.before.bird.y
            target == last.before.bird.targetY
            gap == DAbs(DSub(target, y0))
        IN  /\ game.pipes = last.before.pipes
            /\ game.bird.targetY = target
            /\ y0 = target => game.bird.y = y0
            /\ y0 # target => \/ game.bird.y = y0
                              \/ StrictlyBetween(y0, game.bird.y, target)
            /\ DAtLeast(gap, SmallestMovingGap)
                  => StrictlyBetween(y0, game.bird.y, target)

\* a tick in GAME_OVER, after the target was set anew, that moved the avatar
C32_Witness ==
    /\ OverTick
    /\ last.calls > 0
    /\ game.state = GAME_OVER
    /\ StrictlyBetween(last.before.bird.y, game.bird.y, game.bird.targetY)


\* a tick of update() that began in PLAYING, and the obstacles it appended
PlayingTick == last.op = "update" /\ last.before.state = PLAYING

Appended == game.spawned - last.before.spawned

\* the obstacle appended last is at the right edge and not passed, those
\* before it are the ones the tick found, and the timer is back at 0
OneAtRightEdge ==
    /\ Appended = 1
    /\ Len(game.pipes) > 0
    /\ game.pipes[Len(game.pipes)].id = game.spawned
    /\ game.pipes[Len(game.pipes)].x = game.width
    /\ ~game.pipes[Len(game.pipes)].passed
    /\ \A i \in 1..(Len(game.pipes) - 1) : game.pipes[i].id <= last.before.spawned
    /\ game.lastPipeSpawn = DZero

\* C33 as stated: in a PLAYING tick an obstacle is spawned if and only if
\* the spawn timer, after adding the tick's deltaTime, exceeds 2000; then
\* exactly one is appended at x = width with passed = false and the timer is
\* reset to 0; no tick spawns more than one.
C33_SpawnWhenExceeded ==
    PlayingTick =>
        IF DMore(DAdd(last.before.lastPipeSpawn, last.deltaTime),
                 FromInt(pipeSpawnInterval))
        THEN OneAtRightEdge
        ELSE Appended = 0

\* C33 as amended: ... if and only if the spawn timer, after adding the
\* tick's deltaTime, has reached or exceeds 2000; then exactly one obstacle
\* is appended at x = width with passed = false and the timer is reset to 0,
\* and otherwise the timer has grown by deltaTime.  No tick spawns more than
\* one obstacle, and the interval does not depend on score.
C33_SpawnWhenReached ==
    PlayingTick =>
        IF DAtLeast(DAdd(last.before.lastPipeSpawn, last.deltaTime),
                    FromInt(pipeSpawnInterval))
        THEN OneAtRightEdge
        ELSE /\ Appended = 0
             /\ game.lastPipeSpawn = DAdd(last.before.lastPipeSpawn, last.deltaTime)

\* one obstacle spawned at score 30 by a tick of nearly two intervals
C33_Witness ==
    /\ PlayingTick
    /\ OneAtRightEdge
    /\ last.before.score = 30
    /\ DMore(DAdd(last.before.lastPipeSpawn, last.deltaTime),
             FromInt(pipeSpawnInterval + 1900))


\* C34: resize(width, height) in any state, mid-run too, changes only width,
\* height, the avatar's x (to 20% of width) and the base gap (to min(180,
\* 25% of height)); the obstacles with their x, gapTop, gapBottom, passed
\* and order, the score, the run state and all else are unchanged.
C34_ResizeLeavesRun ==
    last.op = "resize" =>
        /\ <<game.width, game.height>> \in Canvases
        /\ game.bird.x = DMul(game.width, FromRatio(20, 100))
        /\ game.basePipeGap = DMin(FromInt(180), DMul(game.height, FromRatio(25, 100)))
        /\ game.pipeGap = game.basePipeGap
        /\ game = [last.before EXCEPT !.width = game.width, !.height = game.height,
                                      !.bird.x = game.bird.x,
                                      !.pipeGap = game.pipeGap,
                                      !.basePipeGap = game.basePipeGap]

\* the window shrinks mid-run with two obstacles on the field, one of them
\* now beyond the right edge
C34_Witness ==
    /\ last.op = "resize"
    /\ game.state = PLAYING
    /\ DLess(game.width, last.before.width)
    /\ Len(game.pipes) >= 2
    /\ \E i \in 1..Len(game.pipes) : DMore(game.pipes[i].x, game.width)
    /\ DLess(game.basePipeGap, last.before.basePipeGap)


\* C35: every obstacle removed from the list by garbage collection during a
\* run has passed = true at removal, and has left the field; and after
\* every PLAYING tick no obstacle with x + pipeWidth < 0 remains in the list.
C35_SweptOnlyWhenPassed ==
    PlayingTick =>
        /\ \A i \in 1..Len(game.removed) :
              /\ game.removed[i].passed
              /\ DLess(DAdd(game.removed[i].x, FromInt(pipeWidth)), DZero)
        /\ {game.removed[i].id : i \in 1..Len(game.removed)}
              = PipeIds(last.before) \ PipeIds(game)
        /\ \A i \in 1..Len(game.pipes) :
              DAtLeast(DAdd(game.pipes[i].x, FromInt(pipeWidth)), DZero)

\* a tick removed the first obstacle, passed at score 1, and left the two
\* behind it on the field
C35_Witness ==
    /\ PlayingTick
    /\ Len(game.removed) = 1
    /\ game.removed[1].id = 1
    /\ PipeIds(game) = {2, 3}
    /\ game.score >= 1


\* the board handler p answered with holds a row of p's name and score
BoardHoldsOwnRow(p) ==
    \E i \in 1..Len(h[p].board[1]) :
        /\ h[p].board[1][i].name = h[p].cleanName
        /\ h[p].board[1][i].score = h[p].score.num

\* C36: under every interleaving of concurrent submit handlers, a response
\* with madeLeaderboard = true has a rank between 1 and 100 and a returned
\* leaderboard that contains the row inserted by that request.
C36_AdmittedIsOnBoard ==
    \A p \in Handlers :
        (Answered(p) /\ h[p].madeLeaderboard) =>
            /\ h[p].rank # None
            /\ h[p].rank[1] >= 1 /\ h[p].rank[1] <= MAX_LEADERBOARD
            /\ BoardHoldsOwnRow(p)


\* the row of the table that handler p inserted
OwnRows(p) == {leaderboard[i] : i \in {j \in 1..Len(leaderboard) : leaderboard[j].id = h[p].rowId}}

\* C37: for an admitted submission, the entry of the returned leaderboard at
\* index rank - 1, which the game-over screen highlights as the current
\* player's, is the row that the submission inserted, also when other rows
\* carry the same score.
C37_HighlightedIsOwnRow ==
    \A p \in Handlers :
        (Answered(p) /\ h[p].madeLeaderboard /\ h[p].rank # None) =>
            \A r \in OwnRows(p) :
                \A i \in 0..(Len(h[p].board[1]) - 1) :
                    isCurrentPlayer(h[p].rank[1], i) =>
                        h[p].board[1][i + 1] = Project(r)


\* the calls of submitScore() whose fetch has not settled
SubmitsInFlight == {q \in net.pending : q.call = "submitScore"}

\* C38: at most one score-submission request is sent per finished run:
\* while a submit request is in flight, a further submit event (a click on
\* the button or Enter in the name field) sends no second request.
C38_OneSubmitPerRun ==
    /\ Cardinality(SubmitsInFlight) <= 1
    /\ net.submits <= 1
    /\ (last.op = "handleSubmit" /\ last.inFlight # {}) => ~last.requested


\* C39: scoreSubmitted becomes true only after the ranking service accepted
\* the submission: when the submit request fails (no response, or one that
\* is not OK) scoreSubmitted stays false, and percentile and rank stay as
\* they were.
C39_SubmittedOnlyWhenAccepted ==
    (last.op = "handleSubmitResumed" /\ last.failed) =>
        /\ app.scoreSubmitted = last.appBefore.scoreSubmitted
        /\ app.percentile = last.appBefore.percentile
        /\ app.rank = last.appBefore.rank


\* a call of getLeaderboard() or of submitScore() has settled
CacheSettled == last.op \in {"getLeaderboardSettled", "submitScoreSettled"}

\* C40: with a fetch of getLeaderboard() and a request of submitScore() in
\* flight at the same time, the cache never ends up older than it was: an
\* answer that the service issued before it committed a submission does not
\* replace the cached list once the submission's answer has been cached, and
\* lastFetch never moves back.
C40_CacheNeverGoesBack ==
    /\ CacheSettled => api.lastFetch >= last.apiBefore.lastFetch
    /\ (last.op = "getLeaderboardSettled" /\ last.preCommit) =>
           api.cachedLeaderboard = last.apiBefore.cachedLeaderboard

====
